---- MODULE Spec2Model ----
(***************************************************************************)
(* pkgsz: install a package into a temporary workspace, build a re-export  *)
(* bundle, measure node_modules and dist sizes, attribute bundled bytes to *)
(* packages, report, clean up.                                             *)
(*                                                                         *)
(* Five specifications share this module:                                  *)
(*   Spec        the top-level pipeline (one run of the CLI)               *)
(*   SpecSize    dirCompressedSize / dirSize with per-file callbacks       *)
(*   SpecExplore the attribution loop of exploreSourcemaps                 *)
(*   SpecProbe   the probe loop of getExportsData / hasDefaultExport       *)
(*   SpecAttr    exploreSourcemaps over whole analyzer documents            *)
(***************************************************************************)
EXTENDS Integers, Sequences, FiniteSets, TLC

VARIABLES
    toolStderr,     \* input of the run: what each tool writes to its standard error when
                    \* it exits normally ("" for nothing)
    loopData,       \* the local `data` array of getExportsData (in SpecVersion: the probes
                    \* of Promise.all that have settled)
    flags,          \* what getCliArgs returns: version and the flags json, interactive,
                    \* noClean, noGzip, brotli, export
    pc,             \* position of the top-level module code
    deferredState,  \* state of the promise pushed by calculateNodeModulesSize
    results,        \* the results Set, in insertion order
    compositionMap, \* the composition Map, in insertion order: <<key, size>> pairs
    cleanup,        \* the registered cleanup functions
    workspace,      \* the temporary directory: "none", "present", "removed"
    cleanupRuns,    \* number of cleanup functions that have been called
    rendered,       \* number of completed printResults calls
    resolved,       \* TRUE once `exports`, `packageVersion`, `deps` are initialised
    pkgExports,     \* `exports` of the installed manifest (after resolvePackageJson)
    packageVersion, \* `packageVersion`
    selected,       \* export list handed to getExportsData
    exportsData,    \* the exportsData global
    failedStep,     \* the fatal step that failed, "none" otherwise
    exitArg,        \* argument of the pending exitAndReport call
    exitCode,       \* process exit status, -1 while running
    exitVia,        \* "none", "process.exit" or "uncaught"
    trace,          \* history: program positions entered and events, in order
    nmFiles,        \* files listed by the deferred measurement
    deps,           \* `deps` of resolvePackageJson
    stdout,         \* history: the lines written to standard output, in order
    sourcemaps,     \* the .map files of dist: "none", "present", "removed"
    stderr,         \* history: the messages written to standard error, in order
    report,         \* what printResults rendered
    \* ---- SpecSize ----
    szFiles,        \* the files behind `paths`
    szMethods,      \* the `methods` argument
    szPc,           \* position of dirCompressedSize
    taskPc,         \* position of each per-file callback
    dcsResults,     \* the local `results` accumulator of dirCompressedSize
    szReturned,     \* the value dirCompressedSize resolved with
    szOrder,        \* history: the callbacks in the order they finished
    \* ---- SpecExplore ----
    exPc,           \* position of the attribution loop
    exSeen,         \* keys already visited in the current results[] element
    exCount,        \* number of entries visited
    exBundles,      \* number of results[] elements entered
    exLast,         \* the [key, size] entry visited last
    \* ---- SpecProbe ----
    prPc,           \* position of getExportsData
    prExports,      \* the `exports` argument of getExportsData
    prData,         \* the local `data` array
    prOutcomes,     \* history: what each probe did (threw or not, the build's stderr)
    prFile,         \* content of src/index.js in the workspace
    prBuilds,       \* history: per probe build, the candidate and the src/index.js it read
    \* ---- SpecAttr ----
    atDoc,          \* json.results of the analyzer document: the results[].files entry lists
    atNext,         \* index of the results[] element the outer loop is at
    atPass,         \* how many times the document has been attributed (1 or 2)
    atPc,           \* position of the attribution: "idle", "loop", "done"
    atFirst         \* the composition Map as the first attribution left it

pipeVars == <<flags, toolStderr, loopData, pc, deferredState, results, cleanup, workspace, cleanupRuns,
              rendered, resolved, pkgExports, packageVersion, selected, exportsData,
              failedStep, exitArg, exitCode, exitVia, trace, nmFiles, deps, stdout, stderr,
              report, sourcemaps>>
sizeVars == <<szFiles, szMethods, szPc, taskPc, dcsResults, szReturned, szOrder>>
exploreVars == <<exPc, exSeen, exCount, exBundles, exLast>>
attrVars == <<atDoc, atNext, atPass, atPc, atFirst>>
probeVars == <<prPc, prExports, prData, prOutcomes, prFile, prBuilds>>
\* pipeVars without stdout
quietPipeVars == <<flags, toolStderr, loopData, pc, deferredState, results, cleanup, workspace,
                   cleanupRuns, rendered, resolved, pkgExports, packageVersion, selected,
                   exportsData, failedStep, exitArg, exitCode, exitVia, trace, nmFiles, deps,
                   stderr, report, sourcemaps>>
vars == <<pipeVars, compositionMap, sizeVars, exploreVars, attrVars, probeVars>>

(***************************************************************************)
(* Bounds                                                                  *)
(***************************************************************************)
MaxExports == 2
MaxFiles == 2
MaxSize == 2
MaxEntries == 3
MaxBundles == 2

(***************************************************************************)
(* String helpers (JavaScript String methods on TLA+ strings)              *)
(***************************************************************************)
startsWith(s, p) == Len(s) >= Len(p) /\ SubSeq(s, 1, Len(p)) = p

includes(s, p) == \E i \in 1..(Len(s) - Len(p) + 1) : SubSeq(s, i, i + Len(p) - 1) = p

substring(s, n) == SubSeq(s, n + 1, Len(s))

\* position of the first occurrence of the one-character separator, 0 if none
RECURSIVE indexOf(_, _, _)
indexOf(s, sep, i) ==
    IF i > Len(s) THEN 0
    ELSE IF SubSeq(s, i, i) = sep THEN i
    ELSE indexOf(s, sep, i + 1)

RECURSIVE split(_, _)
split(s, sep) ==
    LET i == indexOf(s, sep, 1)
    IN IF i = 0 THEN <<s>>
       ELSE <<SubSeq(s, 1, i - 1)>> \o split(SubSeq(s, i + 1, Len(s)), sep)

Range(s) == {s[i] : i \in 1..Len(s)}

RECURSIVE SumSeq(_)
SumSeq(s) == IF s = <<>> THEN 0 ELSE Head(s) + SumSeq(Tail(s))

\* the elements of s at the positions in idx, in order
RECURSIVE SelectIdx(_, _, _)
SelectIdx(s, idx, i) ==
    IF i > Len(s) THEN <<>>
    ELSE (IF i \in idx THEN <<s[i]>> ELSE <<>>) \o SelectIdx(s, idx, i + 1)

SeqsUpTo(S, n) == UNION {[1..k -> S] : k \in 0..n}

(***************************************************************************)
(* Inputs of a run                                                         *)
(***************************************************************************)
packageName == "p"

\* --export values; './.x' and './.' are subpaths whose name after './' starts
\* with a dot
ExportChoices == {".", "./a", "./", "./*", "a", "*", "./.x", "./."}
\* the values of the --export flag: at least one (the default is <<".">>), in
\* any order, a value any number of times
ExportLists == {e \in SeqsUpTo(ExportChoices, MaxExports) : Len(e) >= 1}
\* --export values of the runs followed to their end: the root, a subpath
\* with an empty name and the three kinds of rejected value; named subpaths
\* come from the exports prompt there
RunExportChoices == {".", "./", "./*", "a", "*"}
RunExportLists == {e \in SeqsUpTo(RunExportChoices, MaxExports) : Len(e) >= 1}

\* key lists of the `exports` object of an installed manifest, before filtering
ManifestExportKeys == {<<>>, <<".">>, <<".", "./a", "./*">>, <<"./.x", "./.">>,
                       <<"import", "require">>}
ManifestVersions == {"1.0.0"}
\* dependency names `npm list --all --json` reports
ManifestDeps == {<<"d">>}
\* the version after '@' on the command line, "" when none is given
RequestedVersions == {"", "latest", "1.0.0"}
\* the directory mkdtemp creates
dirName == "/tmp/pkgsz-x"

\* a file is its stat size and the lengths of its compressed contents
FileKinds == [size : 0..MaxSize, gzip : {1, 2}, brotli : {1}]
FileLists == SeqsUpTo(FileKinds, MaxFiles)
NmFileLists == {<<[size |-> 1, gzip |-> 1, brotli |-> 1], [size |-> 2, gzip |-> 2, brotli |-> 1]>>}
DistFileLists == {<<>>,
                  <<[size |-> 2, gzip |-> 1, brotli |-> 1], [size |-> 1, gzip |-> 2, brotli |-> 1]>>}

MethodLists == {<<>>, <<"none">>, <<"none", "none">>, <<"gzip">>, <<"brotli">>,
                <<"none", "gzip">>, <<"none", "brotli">>, <<"gzip", "brotli">>,
                <<"none", "gzip", "brotli">>}

nodeModulesPrefix == "../node_modules/"
SourceMappingURLKey == "[sourceMappingURL]"
EOLsKey == "[EOLs]"
SourcePaths == {"../node_modules/p/i.js", "../node_modules/d/i.js",
                "../node_modules/@scope/pkg/file.js", "../node_modules/@s", "../src/index.js",
                EOLsKey, SourceMappingURLKey}
EntrySizes == 0..MaxSize

\* the tools the run executes with execEx and debugPrint
Tools == {"npm i", "node", "npm list", "pkgbld", "source-map-explorer", "pkgbld prune"}
QuietTools == [t \in Tools |-> ""]
\* the tools that write warnings: the installer and the bundler, or the others
ToolProfiles ==
    {[t \in Tools |-> IF t \in {"npm i", "pkgbld"} THEN "stderr:" \o t ELSE ""],
     [t \in Tools |-> IF t \in {"npm i", "pkgbld"} THEN "" ELSE "stderr:" \o t]}

\* what exploreSourcemaps has attributed when it throws after the analyzer
\* exited normally: nothing (JSON.parse throws, or the first element has no
\* files object), or the elements before the one that throws
BrokenDocs ==
    {<<>>,
     << << <<"../node_modules/p/i.js", 2>> >> >>}

\* analyzer documents used by the pipeline: hasResults tells whether the document
\* has a results array, results is the sequence of results[].files entry lists
PipelineDocs ==
    {[hasResults |-> FALSE, results |-> <<>>],
     [hasResults |-> TRUE, results |->
        << << <<"../node_modules/p/i.js", 2>>, <<EOLsKey, 2>>, <<SourceMappingURLKey, 1>> >> >>],
     [hasResults |-> TRUE, results |->
        << << <<EOLsKey, 1>>, <<"../node_modules/d/i.js", 1>>, <<"../node_modules/p/i.js", 1>> >>,
           << <<"../node_modules/d/j.js", 2>>, <<"../src/index.js", 0>> >> >>]}

(***************************************************************************)
(* validateExports                                                         *)
(***************************************************************************)
\* mutant: only the first requested export is checked
exportsErrors_firstOnly(exports) ==
    IF exports = <<>> THEN <<>>
    ELSE LET exportName == Head(exports)
         IN (IF includes(exportName, "*")
                THEN <<"Wildcards are not supported: " \o exportName>> ELSE <<>>)
            \o (IF ~startsWith(exportName, ".")
                THEN <<"Exports must start with a dot: " \o exportName>> ELSE <<>>)

\* mutant: the second rule is checked only when the first one holds (else if)
RECURSIVE exportsErrors_elseIf(_)
exportsErrors_elseIf(exports) ==
    IF exports = <<>> THEN <<>>
    ELSE LET exportName == Head(exports)
         IN (IF includes(exportName, "*")
                THEN <<"Wildcards are not supported: " \o exportName>>
                ELSE IF ~startsWith(exportName, ".")
                THEN <<"Exports must start with a dot: " \o exportName>> ELSE <<>>)
            \o exportsErrors_elseIf(Tail(exports))

RECURSIVE exportsErrors(_)
exportsErrors(exports) ==
    IF exports = <<>> THEN <<>>
    ELSE LET exportName == Head(exports)
         IN (IF includes(exportName, "*")
                THEN <<"Wildcards are not supported: " \o exportName>> ELSE <<>>)
            \o (IF ~startsWith(exportName, ".")
                THEN <<"Exports must start with a dot: " \o exportName>> ELSE <<>>)
            \o exportsErrors(Tail(exports))

(***************************************************************************)
(* getExportsData: the candidate list before the default-export probes     *)
(***************************************************************************)
\* mutant: the import specifier of the root export gets a subpath as well
RECURSIVE packageExports_alwaysSubpath(_)
packageExports_alwaysSubpath(exports) ==
    IF exports = <<>> THEN <<>>
    ELSE LET e == Head(exports)
             exportName == IF startsWith(e, "./") THEN substring(e, 2)
                           ELSE IF e = "." THEN e ELSE ""
         IN (IF exportName = "" THEN <<>>
             ELSE <<[import |-> packageName \o "/" \o exportName,
                     export |-> exportName]>>)
            \o packageExports_alwaysSubpath(Tail(exports))

RECURSIVE packageExports(_)
packageExports(exports) ==
    IF exports = <<>> THEN <<>>
    ELSE LET e == Head(exports)
             \* "" stands for both undefined and the empty string: filter(Boolean) drops both
             exportName == IF startsWith(e, "./") THEN substring(e, 2)
                           ELSE IF e = "." THEN e ELSE ""
         IN (IF exportName = "" THEN <<>>
             ELSE <<[import |-> packageName \o (IF exportName = "." THEN "" ELSE "/" \o exportName),
                     export |-> exportName]>>)
            \o packageExports(Tail(exports))

(***************************************************************************)
(* hasDefaultExport: the probe build and what is read off its stderr       *)
(***************************************************************************)
\* the diagnostic hasDefaultExport looks for
DefaultNotExported == "\"default\" is not exported by"

\* what one probe can do: threw is TRUE when writeFile rejects or the build
\* exits with an error (execEx throws), stderr is what the build wrote
ProbeOutcomes ==
    {[threw |-> FALSE, stderr |-> ""],
     [threw |-> FALSE, stderr |-> "(!) \"default\" is not exported by \"node_modules/p/i.js\""],
     [threw |-> FALSE, stderr |-> "(!) Generated an empty chunk"],
     [threw |-> TRUE, stderr |-> "Error: Could not resolve entry module"],
     [threw |-> TRUE, stderr |-> "Error: \"default\" is not exported by \"node_modules/p/i.js\""]}

\* a rejected writeFile: the build never ran
WriteRejected == [threw |-> TRUE, stderr |-> ""]

\* the text written to src/index.js for one probe
probeSource(importName) == "import $index from '" \o importName \o "';"

\* mutant: the catch branch answers true
hasDefaultExport_catchTrue(o) ==
    IF o.threw THEN TRUE ELSE ~includes(o.stderr, DefaultNotExported)

\* the value hasDefaultExport returns for one probe
hasDefaultExport(o) ==
    IF o.threw THEN FALSE ELSE ~includes(o.stderr, DefaultNotExported)

(***************************************************************************)
(* The composition Map and the attribution of one analyzer entry           *)
(***************************************************************************)
MapHas(m, k) == \E i \in 1..Len(m) : m[i][1] = k
MapGet(m, k) == LET i == CHOOSE j \in 1..Len(m) : m[j][1] = k IN m[i][2]
MapSet(m, k, v) ==
    IF MapHas(m, k)
    THEN [i \in 1..Len(m) |-> IF m[i][1] = k THEN <<k, v>> ELSE m[i]]
    ELSE Append(m, <<k, v>>)
MapKeys(m) == {m[i][1] : i \in 1..Len(m)}
MapValue(m, k) == IF MapHas(m, k) THEN MapGet(m, k) ELSE 0

\* mutant: the second segment of a scoped package is not appended
pkgName_unscoped(key) ==
    IF startsWith(key, nodeModulesPrefix)
    THEN split(substring(key, Len(nodeModulesPrefix)), "/")[1]
    ELSE key

\* mutant: a path outside node_modules is credited to the measured package
pkgName_selfFallback(key) ==
    IF startsWith(key, nodeModulesPrefix)
    THEN LET mapped == substring(key, Len(nodeModulesPrefix))
             parts == split(mapped, "/")
         IN IF startsWith(parts[1], "@") /\ Len(parts) > 1
            THEN parts[1] \o "/" \o parts[2]
            ELSE parts[1]
    ELSE packageName

\* the key an analyzer path is attributed to
pkgName(key) ==
    IF startsWith(key, nodeModulesPrefix)
    THEN LET mapped == substring(key, Len(nodeModulesPrefix))
             parts == split(mapped, "/")
         IN IF startsWith(parts[1], "@") /\ Len(parts) > 1
            THEN parts[1] \o "/" \o parts[2]
            ELSE parts[1]
    ELSE key

\* mutant: the '[sourceMappingURL]' entry is not skipped
skipped_zeroOnly(key, size) == size = 0

\* mutant: the check of v.size === 0 is missing
skipped_markerOnly(key, size) == ~startsWith(key, nodeModulesPrefix) /\ key = SourceMappingURLKey

\* an entry the loop skips with `continue`
skipped(key, size) ==
    \/ size = 0
    \/ (~startsWith(key, nodeModulesPrefix) /\ key = SourceMappingURLKey)

\* mutant: a later entry of a package replaces the size instead of adding to it
attribute_overwrite(m, key, size) ==
    IF skipped(key, size) THEN m
    ELSE MapSet(m, pkgName(key), size)

\* mutant: only the first entry of a package is counted
attribute_firstWins(m, key, size) ==
    IF skipped(key, size) THEN m
    ELSE IF ~MapHas(m, pkgName(key))
         THEN MapSet(m, pkgName(key), size)
         ELSE m

\* body of the inner loop of exploreSourcemaps for one [key, {size}] entry
attribute(m, key, size) ==
    IF skipped(key, size) THEN m
    ELSE IF ~MapHas(m, pkgName(key))
         THEN MapSet(m, pkgName(key), size)
         ELSE MapSet(m, pkgName(key), MapGet(m, pkgName(key)) + size)

RECURSIVE attributeFiles(_, _)
attributeFiles(m, files) ==
    IF files = <<>> THEN m
    ELSE attributeFiles(attribute(m, Head(files)[1], Head(files)[2]), Tail(files))

RECURSIVE attributeBundles(_, _)
attributeBundles(m, bundles) ==
    IF bundles = <<>> THEN m
    ELSE attributeBundles(attributeFiles(m, Head(bundles)), Tail(bundles))

attributeAll(m, json) == IF json.hasResults THEN attributeBundles(m, json.results) ELSE m

(***************************************************************************)
(* dirSize, dirCompressedSize as functions of the files                    *)
(***************************************************************************)
\* mutant: the reduction starts at the second file
RECURSIVE dirSize_skipFirst(_)
dirSize_skipFirst(paths) ==
    IF Len(paths) <= 1 THEN 0 ELSE paths[2].size + dirSize_skipFirst(Tail(paths))

RECURSIVE dirSize(_)
dirSize(paths) == IF paths = <<>> THEN 0 ELSE Head(paths).size + dirSize(Tail(paths))

fileLength(f, method) ==
    IF method = "none" THEN f.size ELSE IF method = "gzip" THEN f.gzip ELSE f.brotli

RECURSIVE totalOf(_, _)
totalOf(paths, method) ==
    IF paths = <<>> THEN 0 ELSE fileLength(Head(paths), method) + totalOf(Tail(paths), method)

dirCompressedSize(paths, methods) ==
    LET methodsSet == Range(methods)
    IN IF "none" \in methodsSet /\ Cardinality(methodsSet) = 1
       THEN [m \in {"none"} |-> dirSize(paths)]
       ELSE [m \in methodsSet |-> totalOf(paths, m)]

distMethods(f) ==
    <<"none">> \o (IF f.noGzip THEN <<>> ELSE <<"gzip">>) \o (IF f.brotli THEN <<"brotli">> ELSE <<>>)

(***************************************************************************)
(* The logger and what printResults renders                                *)
(***************************************************************************)
\* mutant: makeQuiet is never called
loggerLog_neverQuiet(out, f, lines) == out \o lines

\* logger.log for every line of lines: console.log unless the logger was
\* made quiet, which the top level does when flags.json is set
loggerLog(out, f, lines) == IF f.json THEN out ELSE out \o lines

\* execEx with debugPrint: the stderr of a tool that exited normally, when it is
\* not empty, goes to logger.log
execEcho(out, f, text) == IF text = "" THEN out ELSE loggerLog(out, f, <<text>>)

\* the line of the cleanup function registered under --no-clean
CleanupNotice == "Cleanup disabled, directory is left at: " \o " " \o dirName

resultCaptions == [sizeMinified |-> "minified",
                   sizeMinifiedGzipped |-> "minified + gzip",
                   sizeMinifiedBrotli |-> "minified + brotli",
                   nodeModulesSize |-> "node_modules",
                   nodeModulesFiles |-> "node_modules files"]

\* one row of the results table: the caption and the value the size cells are
\* formatted from
formatResult(result) == <<resultCaptions[result.id], result.value, result.unit>>

\* data.filter(row => ...) on the entries of the Map
RECURSIVE filterRows(_, _)
filterRows(data, isSelf) ==
    IF data = <<>> THEN <<>>
    ELSE (IF (Head(data)[1] = packageName) = isSelf THEN <<Head(data)>> ELSE <<>>)
         \o filterRows(Tail(data), isSelf)

\* e placed behind every row that is not smaller than it
RECURSIVE insertBySize(_, _)
insertBySize(sorted, e) ==
    IF sorted = <<>> THEN <<e>>
    ELSE IF Head(sorted)[2] >= e[2] THEN <<Head(sorted)>> \o insertBySize(Tail(sorted), e)
    ELSE <<e>> \o sorted

\* mutant: the comparator is a[1] - b[1]
RECURSIVE sortBySize_ascending(_)
sortBySize_ascending(rest) ==
    IF rest = <<>> THEN <<>>
    ELSE LET e == rest[Len(rest)]
             sorted == sortBySize_ascending(SubSeq(rest, 1, Len(rest) - 1))
             smaller == SelectSeq(sorted, LAMBDA r : r[2] <= e[2])
             larger == SelectSeq(sorted, LAMBDA r : r[2] > e[2])
         IN smaller \o <<e>> \o larger

\* rest.sort((a, b) => b[1] - a[1]): stable, largest first
RECURSIVE sortBySize(_)
sortBySize(rest) ==
    IF rest = <<>> THEN <<>>
    ELSE insertBySize(sortBySize(SubSeq(rest, 1, Len(rest) - 1)), rest[Len(rest)])

\* tableData of the composition table: the measured package, then the rest
compositionRows(data) ==
    LET firstRow == filterRows(data, TRUE)
        compositionMapSorted == sortBySize(filterRows(data, FALSE))
    IN (IF Len(firstRow) > 0 THEN <<<<firstRow[1][1] \o " (self)", firstRow[1][2]>>>> ELSE <<>>)
       \o compositionMapSorted

\* the object the JSON branch of printResults serialises
jsonResult(version, exports, data, res, comp) ==
    [format |-> "json",
     metadata |-> [name |-> packageName, version |-> version],
     exports |-> exports,
     includedExports |-> [i \in 1..Len(data) |->
                             [export |-> data[i].export, defaultExport |-> data[i].hasDefaultExport]],
     results |-> res,
     composition |-> comp]

\* the tables of the other branch
tableResult(data, res, comp) ==
    [format |-> "table",
     results |-> [i \in 1..Len(res) |-> formatResult(res[i])],
     includedExports |-> [i \in 1..Len(data) |->
                             <<data[i].export,
                               IF data[i].hasDefaultExport THEN "default export" ELSE "no default export">>],
     composition |-> compositionRows(comp)]

\* the console.log calls of the table branch
tableLines(data, comp) ==
    <<"", "table:results">>
    \o (IF Len(data) = 0 THEN <<>>
        ELSE IF Len(data) = 1 THEN <<"", "Exports: " \o data[1].export \o " "
                                   \o (IF data[1].hasDefaultExport THEN "(default export)" ELSE "")>>
        ELSE <<"", "Exports:", "", "table:exports">>)
    \o (IF Len(comp) = 0 THEN <<>> ELSE <<"", "Composition:", "", "table:composition">>)

(***************************************************************************)
(* The pipeline                                                            *)
(***************************************************************************)
Running == pc # "exited"

Goto(step) == /\ pc' = step
              /\ trace' = Append(trace, step)

\* what node prints for an exception nobody catches
UncaughtMessage == "Uncaught"

\* an exception nobody catches, or a rejection nobody handles: node prints it
\* and terminates the process with status 1
Uncaught == /\ pc' = "exited"
            /\ exitCode' = 1
            /\ exitVia' = "uncaught"
            /\ trace' = Append(trace, "uncaught")
            /\ stderr' = Append(stderr, UncaughtMessage)

\* the message argument of the wrapWithLogger call of each fatal step
stepMessage(step) ==
    CASE step = "createDirs" -> "Creating temporary directories"
      [] step = "installPackage" -> "Installing package"
      [] step = "resolvePackageJson" -> "Resolving package.json"
      [] step = "getExportsData" -> "Resolving exports"
      [] step = "buildPackage" -> "Building package"
      [] step = "exploreSourcemaps" -> "Exploring sourcemaps"
      [] step = "prunePackage" -> "Pruning package"
      [] step = "calculateDistSize" -> "Calculating sizes / finalizing"

\* `${message} (failed)`, then the message of the error the step threw
\* (for a tool that failed, execEx makes it the tool's stderr)
failText(step) == stepMessage(step) \o " (failed)\n" \o "error.message of " \o step

\* mutant: the spinner survives makeQuiet
loggerFail_neverQuiet(err, f, message) == Append(err, message)

\* logger.fail: the spinner prints the message; makeQuiet (--json) has dropped the spinner
loggerFail(err, f, message) == IF f.json THEN err ELSE Append(err, message)

\* logger.succeed: as logger.fail
loggerSucceed(err, f, message) == IF f.json THEN err ELSE Append(err, message)

\* logger.error: console.error unless quiet
loggerError(err, f, message) == IF f.json THEN err ELSE Append(err, message)

\* mutant: the catch branch reports and exits with status 0
Fatal_exitZero(step) == /\ failedStep' = step
                        /\ exitArg' = 0
                        /\ pc' = "exitAndReport"
                        /\ trace' = trace \o <<"fail:" \o step, "exitAndReport">>
                        /\ stderr' = loggerFail(stderr, flags, failText(step))

\* catch branch of wrapWithLogger with fatal = true: logger.fail, exitAndReport(1)
Fatal(step) == /\ failedStep' = step
               /\ exitArg' = 1
               /\ pc' = "exitAndReport"
               /\ trace' = trace \o <<"fail:" \o step, "exitAndReport">>
               /\ stderr' = loggerFail(stderr, flags, failText(step))

NoTotals == [m \in {} |-> 0]

sizeVarsInit == /\ szFiles = <<>>
                /\ szMethods = <<>>
                /\ szPc = "idle"
                /\ taskPc = <<>>
                /\ dcsResults = NoTotals
                /\ szReturned = NoTotals
                /\ szOrder = <<>>

exploreVarsInit == /\ exPc = "idle"
                   /\ exSeen = {}
                   /\ exCount = 0
                   /\ exBundles = 0
                   /\ exLast = <<"", 0>>

attrVarsInit == /\ atDoc = <<>>
                /\ atNext = 1
                /\ atPass = 1
                /\ atPc = "idle"
                /\ atFirst = <<>>

probeVarsInit == /\ prPc = "idle"
                 /\ prExports = <<>>
                 /\ prData = <<>>
                 /\ prOutcomes = <<>>
                 /\ prFile = ""
                 /\ prBuilds = <<>>

pipeVarsInit(f, t) == /\ flags = f
                      /\ toolStderr = t
                      /\ loopData = <<>>
                      /\ deferredState = "none"
                      /\ results = <<>>
                      /\ cleanup = <<>>
                      /\ workspace = "none"
                      /\ cleanupRuns = 0
                      /\ rendered = 0
                      /\ resolved = FALSE
                      /\ pkgExports = <<>>
                      /\ packageVersion = ""
                      /\ selected = <<>>
                      /\ exportsData = <<>>
                      /\ failedStep = "none"
                      /\ exitArg = 0
                      /\ exitCode = -1
                      /\ exitVia = "none"
                      /\ nmFiles = <<>>
                      /\ deps = <<>>
                      /\ stdout = <<>>
                      /\ stderr = <<>>
                      /\ sourcemaps = "none"
                      /\ report = [format |-> "none"]

\* the requested version is written to the generated package.json and read
\* nowhere else: one value
FlagSets == [version : {""},
             json : BOOLEAN, interactive : BOOLEAN, noClean : BOOLEAN,
             noGzip : BOOLEAN, brotli : BOOLEAN, export : RunExportLists]

Init == /\ \E f \in FlagSets, t \in ToolProfiles : pipeVarsInit(f, t)
        /\ pc = "getCliArgs"
        /\ trace = <<"getCliArgs">>
        /\ compositionMap = <<>>
        /\ sizeVarsInit
        /\ exploreVarsInit
        /\ attrVarsInit
        /\ probeVarsInit

\* mutant: the check of 0.12.1 is missing
flagsConflict_unchecked(f) == FALSE

\* the flag combination getCliArgs rejects
flagsConflict(f) == f.json /\ f.interactive

\* getCliArgs: --json with --interactive is rejected with process.exit(1)
getCliArgs ==
    /\ pc = "getCliArgs"
    /\ IF flagsConflict(flags)
       THEN /\ pc' = "exited"
            /\ exitCode' = 1
            /\ exitVia' = "process.exit"
            /\ trace' = trace \o <<"error:json+interactive", "exit">>
            \* logger.error: the logger is not quiet yet
            /\ stderr' = Append(stderr, "Cannot use --json and --interactive flags together")
       ELSE /\ Goto("validateExports")
            /\ UNCHANGED <<exitCode, exitVia, stderr>>
    /\ UNCHANGED <<flags, toolStderr, deferredState, results, cleanup, workspace, cleanupRuns,
                   rendered, resolved, pkgExports, packageVersion, selected, loopData, exportsData,
                   failedStep, exitArg, nmFiles, deps, stdout, report, sourcemaps,
                   compositionMap, sizeVars, exploreVars, attrVars, probeVars>>

validateExports ==
    /\ pc = "validateExports"
    /\ IF Len(exportsErrors(flags.export)) > 0
       THEN /\ pc' = "exited"
            /\ exitCode' = 1
            /\ exitVia' = "process.exit"
            /\ trace' = trace \o <<"error:exports", "exit">>
            \* console.error(exportsErrors.join('\n'))
            /\ stderr' = stderr \o exportsErrors(flags.export)
            /\ UNCHANGED stdout
       ELSE /\ Goto("createDirs")
            /\ stdout' = loggerLog(stdout, flags, <<"">>)        \* logger.log()
            /\ UNCHANGED <<exitCode, exitVia, stderr>>
    /\ UNCHANGED <<flags, toolStderr, deferredState, results, cleanup, workspace, cleanupRuns,
                   rendered, resolved, pkgExports, packageVersion, selected, loopData, exportsData,
                   failedStep, exitArg, nmFiles, deps, report, sourcemaps, compositionMap,
                   sizeVars, exploreVars, attrVars, probeVars>>

\* createDirs: mkdtemp, register the cleanup function, mkdir src
createDirs ==
    /\ pc = "createDirs"
    /\ \/ /\ Fatal("createDirs")                       \* mkdtemp rejects
          /\ UNCHANGED <<workspace, cleanup>>
       \/ /\ workspace' = "present"                    \* mkdir src rejects
          /\ cleanup' = Append(cleanup, IF ~flags.noClean THEN "rm" ELSE "notice")
          /\ Fatal("createDirs")
       \/ /\ workspace' = "present"
          /\ cleanup' = Append(cleanup, IF ~flags.noClean THEN "rm" ELSE "notice")
          /\ Goto("installPackage")
          /\ UNCHANGED <<failedStep, exitArg, stderr>>
    /\ UNCHANGED <<flags, toolStderr, deferredState, results, cleanupRuns, rendered, resolved,
                   pkgExports, packageVersion, selected, loopData, exportsData, exitCode, exitVia,
                   nmFiles, deps, stdout, report, sourcemaps, compositionMap, sizeVars,
                   exploreVars, attrVars, probeVars>>

\* installPackage: write package.json, run `npm i`
installPackage ==
    /\ pc = "installPackage"
    /\ \/ /\ Fatal("installPackage")
          /\ UNCHANGED stdout
       \/ /\ Goto("calculateNodeModulesSize")
          /\ stdout' = execEcho(stdout, flags, toolStderr["npm i"])
          /\ UNCHANGED <<failedStep, exitArg, stderr>>
    /\ UNCHANGED <<flags, toolStderr, deferredState, results, cleanup, workspace, cleanupRuns,
                   rendered, resolved, pkgExports, packageVersion, selected, loopData, exportsData,
                   exitCode, exitVia, nmFiles, deps, report, sourcemaps, compositionMap,
                   sizeVars, exploreVars, attrVars, probeVars>>

\* calculateNodeModulesSize: start the measurement, push its promise to `deferred`;
\* the top level goes on to resolvePackageJson and waits for `node -e`
calculateNodeModulesSize ==
    /\ pc = "calculateNodeModulesSize"
    /\ deferredState' = "filesInDir"
    /\ pc' = "resolvePackageJson"
    /\ trace' = trace \o <<"deferred:start", "resolvePackageJson">>
    /\ UNCHANGED <<flags, toolStderr, results, cleanup, workspace, cleanupRuns, rendered,
                   resolved, pkgExports, packageVersion, selected, loopData, exportsData,
                   failedStep, exitArg, exitCode, exitVia, nmFiles, deps, stdout, stderr,
                   report, sourcemaps, compositionMap, sizeVars, exploreVars, attrVars,
                   probeVars>>

\* the positions the top level passes without waiting for I/O: the callbacks of
\* the deferred measurement cannot run there
Suspended ==
    /\ pc \notin {"interactiveMode", "buildPackage", "succeed", "printResults"}
    /\ ~(pc = "getExportsData" /\ packageExports(selected) = <<>>)

\* the deferred measurement: filesInDir resolves
deferredFilesInDir ==
    /\ Running
    /\ Suspended
    /\ deferredState = "filesInDir"
    /\ \E files \in NmFileLists : nmFiles' = files
    /\ deferredState' = "dirSize"
    /\ UNCHANGED <<flags, toolStderr, pc, results, cleanup, workspace, cleanupRuns, rendered,
                   resolved, pkgExports, packageVersion, selected, loopData, exportsData,
                   failedStep, exitArg, exitCode, exitVia, trace, deps, stdout, stderr, report,
                   sourcemaps, compositionMap, sizeVars, exploreVars, attrVars, probeVars>>

\* the deferred measurement: dirSize resolves, both records are added
deferredDirSize ==
    /\ Running
    /\ Suspended
    /\ deferredState = "dirSize"
    /\ results' = results \o <<[id |-> "nodeModulesSize", value |-> dirSize(nmFiles), unit |-> "bytes"],
                               [id |-> "nodeModulesFiles", value |-> Len(nmFiles), unit |-> "count"]>>
    /\ deferredState' = "done"
    /\ UNCHANGED <<flags, toolStderr, pc, cleanup, workspace, cleanupRuns, rendered, resolved,
                   pkgExports, packageVersion, selected, loopData, exportsData, failedStep,
                   exitArg, exitCode, exitVia, trace, nmFiles, deps, stdout, stderr, report,
                   sourcemaps, compositionMap, sizeVars, exploreVars, attrVars, probeVars>>

\* the deferred measurement rejects (readdir or stat fails): the rejection is
\* either unhandled or rethrown by `await Promise.all(deferred)` out of
\* exitAndReport, which nothing catches
deferredReject ==
    /\ Running
    /\ Suspended
    /\ deferredState \in {"filesInDir", "dirSize"}
    /\ deferredState' = "rejected"
    /\ Uncaught
    /\ UNCHANGED <<flags, toolStderr, results, cleanup, workspace, cleanupRuns, rendered,
                   resolved, pkgExports, packageVersion, selected, loopData, exportsData,
                   failedStep, exitArg, nmFiles, deps, stdout, report, sourcemaps,
                   compositionMap, sizeVars, exploreVars, attrVars, probeVars>>

RECURSIVE dotKeys(_)
dotKeys(keys) ==
    IF keys = <<>> THEN <<>>
    ELSE (IF startsWith(Head(keys), ".") THEN <<Head(keys)>> ELSE <<>>) \o dotKeys(Tail(keys))

\* what can fail inside resolvePackageJson: locating and reading the manifest,
\* or `npm list` and the evaluation of its output
ResolveFailures == {"manifest", "npm list"}

\* the value of the catch branch
unknownManifest == [exports |-> <<>>, version |-> "<unknown>", deps |-> <<>>]

\* mutant: wrapWithLogger is called with its default, fatal = true
resolveFatal_default == TRUE

\* the third argument of wrapWithLogger in resolvePackageJson
resolveFatal == FALSE

\* const { exports, version: packageVersion, deps } = await resolvePackageJson()
\* returns m, then the top level goes on up to its next wait: the exports prompt
\* or the first probe of getExportsData
resolveReturns(m, events, out, err) ==
    LET next == IF flags.interactive THEN "interactiveMode" ELSE "getExportsData"
    IN /\ pkgExports' = m.exports
       /\ packageVersion' = m.version
       /\ deps' = m.deps
       /\ resolved' = TRUE
       /\ stdout' = out
       /\ stderr' = err
       /\ pc' = next
       /\ trace' = trace \o events \o <<next>>
       /\ selected' = IF flags.interactive THEN selected ELSE flags.export
       /\ UNCHANGED <<failedStep, exitArg>>

\* the catch branches of wrapWithLogger (fatal = false: logger.error, rethrow)
\* and of resolvePackageJson
resolveCatches(cause, out) ==
    IF resolveFatal
    THEN /\ Fatal("resolvePackageJson")
         /\ UNCHANGED <<pkgExports, packageVersion, deps, resolved, stdout, selected>>
    ELSE resolveReturns(unknownManifest, <<"resolveFailed:" \o cause>>, out,
                        loggerError(stderr, flags, "Resolving package.json (failed)"))

\* resolvePackageJson up to readPackageUp: `node -e` resolves the entry point
resolvePackageJson ==
    /\ pc = "resolvePackageJson"
    /\ \/ resolveCatches("manifest", stdout)               \* node exits with an error
       \/ /\ stdout' = execEcho(stdout, flags, toolStderr["node"])
          /\ Goto("npm list")
          /\ UNCHANGED <<pkgExports, packageVersion, deps, resolved, selected,
                         failedStep, exitArg, stderr>>
    /\ UNCHANGED <<flags, toolStderr, deferredState, results, cleanup, workspace, cleanupRuns,
                   rendered, loopData, exportsData, exitCode, exitVia, nmFiles, report, sourcemaps,
                   compositionMap, sizeVars, exploreVars, attrVars, probeVars>>

\* resolvePackageJson from readPackageUp on: the manifest is read, `npm list`
\* is run, its output parsed and queried
resolveDependencies ==
    /\ pc = "npm list"
    /\ \/ \E cause \in ResolveFailures :                   \* readPackageUp or npm list fails
             resolveCatches(cause, stdout)
       \/ resolveCatches("npm list",                       \* JSON.parse or jsonata throws
                         execEcho(stdout, flags, toolStderr["npm list"]))
       \/ \E keys \in ManifestExportKeys, v \in ManifestVersions, d \in ManifestDeps :
             resolveReturns([exports |-> dotKeys(keys), version |-> v, deps |-> d], <<>>,
                            execEcho(stdout, flags, toolStderr["npm list"]), stderr)
    /\ UNCHANGED <<flags, toolStderr, deferredState, results, cleanup, workspace, cleanupRuns,
                   rendered, loopData, exportsData, exitCode, exitVia, nmFiles, report, sourcemaps,
                   compositionMap, sizeVars, exploreVars, attrVars, probeVars>>

\* mutant: no choice of the exports prompt is disabled
enabledChoices_all(exports) == 1..Len(exports)

\* the choices of the exports prompt that are not disabled
enabledChoices(exports) == {i \in 1..Len(exports) : ~includes(exports[i], "*")}

\* interactiveMode up to its first prompt: the exports prompt with more than
\* one declared export, the dependencies prompt otherwise
interactiveMode ==
    /\ pc = "interactiveMode"
    /\ IF Len(pkgExports) > 1
       THEN /\ stdout' = Append(stdout, "prompt:exports")
            /\ Goto("prompt:exports")
            /\ UNCHANGED selected
       ELSE /\ selected' = <<".">>
            /\ stdout' = Append(stdout, "prompt:dependencies")
            /\ Goto("prompt:dependencies")
    /\ UNCHANGED <<flags, toolStderr, deferredState, results, cleanup, workspace, cleanupRuns,
                   rendered, resolved, pkgExports, packageVersion, loopData, exportsData,
                   failedStep, exitArg, exitCode, exitVia, nmFiles, deps, stderr, report,
                   sourcemaps, compositionMap, sizeVars, exploreVars, attrVars, probeVars>>

\* the exports prompt is answered; a cancelled prompt throws Error('Cancelled')
\* at the top level of the module
promptExports ==
    /\ pc = "prompt:exports"
    /\ \/ /\ Uncaught
          /\ UNCHANGED <<selected, stdout>>
       \/ /\ \E idx \in SUBSET enabledChoices(pkgExports) :
                selected' = SelectIdx(pkgExports, idx, 1)
          /\ stdout' = Append(stdout, "prompt:dependencies")
          /\ Goto("prompt:dependencies")
          /\ UNCHANGED <<exitCode, exitVia, stderr>>
    /\ UNCHANGED <<flags, toolStderr, deferredState, results, cleanup, workspace, cleanupRuns,
                   rendered, resolved, pkgExports, packageVersion, loopData, exportsData,
                   failedStep, exitArg, nmFiles, deps, report, sourcemaps, compositionMap,
                   sizeVars, exploreVars, attrVars, probeVars>>

\* the dependencies prompt is answered; then getExportsData(selectedExports)
promptDependencies ==
    /\ pc = "prompt:dependencies"
    /\ \/ Uncaught
       \/ /\ Goto("getExportsData")
          /\ UNCHANGED <<exitCode, exitVia, stderr>>
    /\ UNCHANGED <<flags, toolStderr, deferredState, results, cleanup, workspace, cleanupRuns,
                   rendered, resolved, pkgExports, packageVersion, selected, loopData, exportsData,
                   failedStep, exitArg, nmFiles, deps, stdout, report, sourcemaps,
                   compositionMap, sizeVars, exploreVars, attrVars, probeVars>>

\* getExportsData: one round of the loop, the probe of the next candidate
\* (hasDefaultExport catches and logs its own failures); after the last round
\* the result is assigned to exportsData
getExportsData ==
    /\ pc = "getExportsData"
    /\ LET candidates == packageExports(selected)
       IN IF candidates = <<>>
          THEN /\ exportsData' = <<>>
               /\ Goto("buildPackage")
               /\ UNCHANGED <<loopData, stdout>>
          ELSE \E probe \in ProbeOutcomes \cup {WriteRejected} :
                 LET candidate == candidates[Len(loopData) + 1]
                     pushed == Append(loopData, [import |-> candidate.import,
                                             export |-> candidate.export,
                                             hasDefaultExport |-> hasDefaultExport(probe)])
                 IN /\ loopData' = pushed
                    \* catch (e) { logger.log(e); ... }
                    /\ stdout' = IF probe.threw THEN loggerLog(stdout, flags, <<"error:probe">>)
                                 ELSE stdout
                    /\ IF Len(pushed) = Len(candidates)
                       THEN /\ exportsData' = pushed
                            /\ Goto("buildPackage")
                       ELSE UNCHANGED <<exportsData, pc, trace>>
    /\ UNCHANGED <<flags, toolStderr, deferredState, results, cleanup, workspace, cleanupRuns,
                   rendered, resolved, pkgExports, packageVersion, selected, failedStep,
                   exitArg, exitCode, exitVia, nmFiles, deps, stderr, report, sourcemaps,
                   compositionMap, sizeVars, exploreVars, attrVars, probeVars>>

\* buildPackage up to its first wait: the notes about subpath exports
buildPackage ==
    /\ pc = "buildPackage"
    /\ stdout' = loggerLog(stdout, flags,
                           IF Len(pkgExports) > 0
                           THEN <<"note:Found subpath exports", "", "note:Building", "">>
                           ELSE <<>>)
    /\ Goto("pkgbld")
    /\ UNCHANGED <<flags, toolStderr, deferredState, results, cleanup, workspace, cleanupRuns,
                   rendered, resolved, pkgExports, packageVersion, selected, loopData, exportsData,
                   failedStep, exitArg, exitCode, exitVia, nmFiles, deps, stderr, report,
                   sourcemaps, compositionMap, sizeVars, exploreVars, attrVars, probeVars>>

\* buildPackage: the sources and package.json are written, pkgbld is run
buildPackageRun ==
    /\ pc = "pkgbld"
    /\ \/ /\ Fatal("buildPackage")
          /\ UNCHANGED <<stdout, sourcemaps>>
       \/ /\ Goto("exploreSourcemaps")
          /\ sourcemaps' = "present"                     \* --sourcemaps=es
          /\ stdout' = execEcho(stdout, flags, toolStderr["pkgbld"])
          /\ UNCHANGED <<failedStep, exitArg, stderr>>
    /\ UNCHANGED <<flags, toolStderr, deferredState, results, cleanup, workspace, cleanupRuns,
                   rendered, resolved, pkgExports, packageVersion, selected, loopData, exportsData,
                   exitCode, exitVia, nmFiles, deps, report, compositionMap, sizeVars,
                   exploreVars, attrVars, probeVars>>

\* mutant: the analysis is followed by the measurement of dist
afterAnalysis_skipPrune == "calculateDistSize"

\* the statement after `await exploreSourcemaps()`
afterAnalysis == "prunePackage"

\* exploreSourcemaps: run the analyzer, parse its document, attribute every
\* entry; JSON.parse or an element without a files object throws after the
\* echo and after the entries before it have been attributed
exploreSourcemaps ==
    /\ pc = "exploreSourcemaps"
    /\ \/ /\ Fatal("exploreSourcemaps")                  \* the analyzer exits with an error
          /\ UNCHANGED <<compositionMap, stdout>>
       \/ /\ \E attributed \in BrokenDocs :
               compositionMap' = attributeBundles(compositionMap, attributed)
          /\ stdout' = execEcho(stdout, flags, toolStderr["source-map-explorer"])
          /\ Fatal("exploreSourcemaps")
       \/ /\ \E json \in PipelineDocs : compositionMap' = attributeAll(compositionMap, json)
          /\ stdout' = execEcho(stdout, flags, toolStderr["source-map-explorer"])
          /\ Goto(afterAnalysis)
          /\ UNCHANGED <<failedStep, exitArg, stderr>>
    /\ UNCHANGED <<flags, toolStderr, deferredState, results, cleanup, workspace, cleanupRuns,
                   rendered, resolved, pkgExports, packageVersion, selected, loopData, exportsData,
                   exitCode, exitVia, nmFiles, deps, report, sourcemaps, sizeVars, exploreVars,
                   attrVars, probeVars>>

prunePackage ==
    /\ pc = "prunePackage"
    /\ \/ /\ Fatal("prunePackage")
          /\ UNCHANGED <<stdout, sourcemaps>>
       \/ /\ Goto("calculateDistSize")
          /\ sourcemaps' = "removed"                     \* --removeSourcemaps
          /\ stdout' = execEcho(stdout, flags, toolStderr["pkgbld prune"])
          /\ UNCHANGED <<failedStep, exitArg, stderr>>
    /\ UNCHANGED <<flags, toolStderr, deferredState, results, cleanup, workspace, cleanupRuns,
                   rendered, resolved, pkgExports, packageVersion, selected, loopData, exportsData,
                   exitCode, exitVia, nmFiles, deps, report, compositionMap, sizeVars,
                   exploreVars, attrVars, probeVars>>

\* mutant: the gzip record is added under the id of the uncompressed one
distRecords_gzipAsMinified(f, r) ==
    (IF "none" \in DOMAIN r
        THEN <<[id |-> "sizeMinified", value |-> r["none"], unit |-> "bytes"]>> ELSE <<>>)
    \o (IF ~f.noGzip /\ "gzip" \in DOMAIN r
        THEN <<[id |-> "sizeMinified", value |-> r["gzip"], unit |-> "bytes"]>> ELSE <<>>)
    \o (IF f.brotli /\ "brotli" \in DOMAIN r
        THEN <<[id |-> "sizeMinifiedBrotli", value |-> r["brotli"], unit |-> "bytes"]>> ELSE <<>>)

\* the records calculateDistSize adds, in the order it adds them
distRecords(f, r) ==
    (IF "none" \in DOMAIN r
        THEN <<[id |-> "sizeMinified", value |-> r["none"], unit |-> "bytes"]>> ELSE <<>>)
    \o (IF ~f.noGzip /\ "gzip" \in DOMAIN r
        THEN <<[id |-> "sizeMinifiedGzipped", value |-> r["gzip"], unit |-> "bytes"]>> ELSE <<>>)
    \o (IF f.brotli /\ "brotli" \in DOMAIN r
        THEN <<[id |-> "sizeMinifiedBrotli", value |-> r["brotli"], unit |-> "bytes"]>> ELSE <<>>)

calculateDistSize ==
    /\ pc = "calculateDistSize"
    /\ \/ /\ Fatal("calculateDistSize")
          /\ UNCHANGED results
       \/ /\ \E files \in DistFileLists :
               results' = results \o distRecords(flags, dirCompressedSize(files, distMethods(flags)))
          /\ Goto("succeed")
          /\ UNCHANGED <<failedStep, exitArg, stderr>>
    /\ UNCHANGED <<flags, toolStderr, deferredState, cleanup, workspace, cleanupRuns, rendered,
                   resolved, pkgExports, packageVersion, selected, loopData, exportsData, exitCode,
                   exitVia, nmFiles, deps, stdout, report, sourcemaps, compositionMap,
                   sizeVars, exploreVars, attrVars, probeVars>>

\* logger.succeed(...); exitAndReport(0)
succeed ==
    /\ pc = "succeed"
    /\ exitArg' = 0
    /\ pc' = "exitAndReport"
    \* the spinner is gone once the logger is quiet
    /\ trace' = trace \o (IF flags.json THEN <<>>
                          ELSE <<"succeed:Package: " \o packageName \o "@" \o packageVersion>>)
                      \o <<"exitAndReport">>
    /\ stderr' = loggerSucceed(stderr, flags, "Package: " \o packageName \o "@" \o packageVersion)
    /\ UNCHANGED <<flags, toolStderr, deferredState, results, cleanup, workspace, cleanupRuns,
                   rendered, resolved, pkgExports, packageVersion, selected, loopData, exportsData,
                   failedStep, exitCode, exitVia, nmFiles, deps, stdout, report, sourcemaps,
                   compositionMap, sizeVars, exploreVars, attrVars, probeVars>>

\* mutant: the deferred promises are not awaited
deferredSettled_notAwaited(d) == TRUE

\* await Promise.all(deferred) goes on once nothing was deferred or the
\* deferred measurement has resolved
deferredSettled(d) == d \in {"none", "done"}

\* exitAndReport: await Promise.all(deferred) resolves
exitAndReport ==
    /\ pc = "exitAndReport"
    /\ deferredSettled(deferredState)
    /\ Goto("printResults")
    /\ UNCHANGED <<flags, toolStderr, deferredState, results, cleanup, workspace, cleanupRuns,
                   rendered, resolved, pkgExports, packageVersion, selected, loopData, exportsData,
                   failedStep, exitArg, exitCode, exitVia, nmFiles, deps, stdout, stderr,
                   report, sourcemaps, compositionMap, sizeVars, exploreVars, attrVars,
                   probeVars>>

\* the JSON branch of printResults reads the module-level constants `packageVersion`
\* and `exports`, which are uninitialised until resolvePackageJson has returned
printResultsThrows(f, isResolved) == f.json /\ ~isResolved

printResults ==
    /\ pc = "printResults"
    /\ IF printResultsThrows(flags, resolved)
       THEN /\ Uncaught
            /\ UNCHANGED <<rendered, stdout, report>>
       ELSE /\ rendered' = rendered + 1
            /\ IF flags.json
               THEN /\ report' = jsonResult(packageVersion, pkgExports, exportsData,
                                            results, compositionMap)
                    /\ stdout' = Append(stdout, "json")
               ELSE /\ report' = tableResult(exportsData, results, compositionMap)
                    /\ stdout' = stdout \o tableLines(exportsData, compositionMap)
            /\ Goto("cleanup")
            /\ UNCHANGED <<exitCode, exitVia, stderr>>
    /\ UNCHANGED <<flags, toolStderr, deferredState, results, cleanup, workspace, cleanupRuns,
                   resolved, pkgExports, packageVersion, selected, loopData, exportsData,
                   failedStep, exitArg, nmFiles, deps, sourcemaps, compositionMap, sizeVars,
                   exploreVars, attrVars, probeVars>>

\* await Promise.all(cleanup.map(fn => fn())); process.exit(code).  When rm
\* rejects, exitAndReport rejects before process.exit is reached and nothing
\* catches the error
runCleanup ==
    /\ pc = "cleanup"
    /\ cleanupRuns' = cleanupRuns + Len(cleanup)
    /\ \/ /\ workspace' = IF "rm" \in Range(cleanup) THEN "removed" ELSE workspace
          /\ stdout' = IF "notice" \in Range(cleanup)
                       THEN loggerLog(stdout, flags, <<CleanupNotice>>)
                       ELSE stdout
          /\ pc' = "exited"
          /\ exitCode' = exitArg
          /\ exitVia' = "process.exit"
          /\ trace' = Append(trace, "exit")
          /\ UNCHANGED stderr
       \/ /\ "rm" \in Range(cleanup)                     \* rm rejects
          /\ pc' = "exited"
          /\ exitCode' = 1
          /\ exitVia' = "uncaught"
          /\ trace' = trace \o <<"reject:rm", "uncaught">>
          /\ stderr' = Append(stderr, UncaughtMessage)
          /\ UNCHANGED <<workspace, stdout>>
    /\ UNCHANGED <<flags, toolStderr, deferredState, results, cleanup, rendered, resolved,
                   pkgExports, packageVersion, selected, loopData, exportsData, failedStep,
                   exitArg, nmFiles, deps, report, sourcemaps, compositionMap, sizeVars,
                   exploreVars, attrVars, probeVars>>

Next == \/ getCliArgs
        \/ validateExports
        \/ createDirs
        \/ installPackage
        \/ calculateNodeModulesSize
        \/ deferredFilesInDir
        \/ deferredDirSize
        \/ deferredReject
        \/ resolvePackageJson
        \/ resolveDependencies
        \/ interactiveMode
        \/ promptExports
        \/ promptDependencies
        \/ getExportsData
        \/ buildPackage
        \/ buildPackageRun
        \/ exploreSourcemaps
        \/ prunePackage
        \/ calculateDistSize
        \/ succeed
        \/ exitAndReport
        \/ printResults
        \/ runCleanup

Spec == Init /\ [][Next]_vars

(***************************************************************************)
(* SpecExports: the run from getCliArgs to the return of getExportsData,   *)
(* for every list of --export values                                       *)
(***************************************************************************)
ExportFlagSets == [version : {""},
                   json : BOOLEAN, interactive : BOOLEAN, noClean : BOOLEAN,
                   noGzip : BOOLEAN, brotli : BOOLEAN, export : ExportLists]

InitExports == /\ \E f \in ExportFlagSets, t \in ToolProfiles : pipeVarsInit(f, t)
               /\ pc = "getCliArgs"
               /\ trace = <<"getCliArgs">>
               /\ compositionMap = <<>>
               /\ sizeVarsInit
               /\ exploreVarsInit
               /\ attrVarsInit
               /\ probeVarsInit

\* the steps of the top level up to `exportsData = await getExportsData(...)`;
\* buildPackage and the steps after it read exportsData and leave it alone
NextExports == \/ getCliArgs
               \/ validateExports
               \/ createDirs
               \/ installPackage
               \/ calculateNodeModulesSize
               \/ deferredFilesInDir
               \/ deferredDirSize
               \/ deferredReject
               \/ resolvePackageJson
               \/ resolveDependencies
               \/ interactiveMode
               \/ promptExports
               \/ promptDependencies
               \/ getExportsData

SpecExports == InitExports /\ [][NextExports]_vars

(***************************************************************************)
(* SpecVersion: the pipeline of src/index.js, the release that compares    *)
(* the installed version with the requested one.  It has no --json; the    *)
(* steps whose code is the same in both releases are the actions above,    *)
(* resolvePackageJson, the version check, getExportsData, printResults     *)
(* and interactiveMode are its own.                                        *)
(***************************************************************************)
VersionFlagSets == [version : RequestedVersions,
                    json : {FALSE}, interactive : BOOLEAN, noClean : BOOLEAN,
                    noGzip : {FALSE}, brotli : {FALSE},
                    export : {<<".">>, <<".", "./a">>}]

InitVersion == /\ \E f \in VersionFlagSets, t \in ToolProfiles : pipeVarsInit(f, t)
               /\ pc = "getCliArgs"
               /\ trace = <<"getCliArgs">>
               /\ compositionMap = <<>>
               /\ sizeVarsInit
               /\ exploreVarsInit
               /\ attrVarsInit
               /\ probeVarsInit

\* mutant: the comparison is missing, nothing is written
versionWarning_silent(version, installed) == <<>>

\* if (version && version !== packageVersion) console.warn(...)
versionWarning(version, installed) ==
    IF version # "" /\ version # installed
    THEN <<"Installed version is " \o installed>>
    ELSE <<>>

\* const { exports, version: packageVersion, deps } = await resolvePackageJson()
\* returns m; the version check; then interactiveMode, or
\* getExportsData(flags.export), starts
versionChecked(m, events, out, err) ==
    LET next == IF flags.interactive THEN "interactiveMode" ELSE "getExportsData"
    IN
    /\ pkgExports' = m.exports
    /\ packageVersion' = m.version
    /\ deps' = m.deps
    /\ resolved' = TRUE
    /\ stdout' = out
    /\ stderr' = err \o versionWarning(flags.version, m.version)
    /\ pc' = next
    /\ trace' = trace \o events \o <<next>>
    /\ selected' = IF flags.interactive THEN selected ELSE flags.export

\* the catch branches of wrapWithLogger (fatal = false: console.error, rethrow)
\* and of resolvePackageJson
manifestUnknown(out) ==
    versionChecked(unknownManifest, <<"resolveFailed:manifest">>, out,
                   Append(stderr, "Resolving package.json (failed)"))

\* the names under dependencies and peerDependencies of the installed manifest
ManifestDependencies == {<<>>, <<"d">>}

\* resolvePackageJson up to readPackageUp: `node -e` resolves the entry point
resolveEntryPoint ==
    /\ pc = "resolvePackageJson"
    /\ \/ manifestUnknown(stdout)                          \* node exits with an error
       \/ /\ stdout' = execEcho(stdout, flags, toolStderr["node"])
          /\ Goto("readPackageUp")
          /\ UNCHANGED <<pkgExports, packageVersion, deps, resolved, selected, stderr>>
    /\ UNCHANGED <<flags, toolStderr, deferredState, results, cleanup, workspace, cleanupRuns,
                   rendered, loopData, exportsData, failedStep, exitArg, exitCode, exitVia,
                   nmFiles, report, sourcemaps, compositionMap, sizeVars, exploreVars,
                   attrVars, probeVars>>

\* resolvePackageJson from readPackageUp on: the manifest is read and its
\* exports, version and dependencies are returned
resolveManifest ==
    /\ pc = "readPackageUp"
    /\ \/ manifestUnknown(stdout)                          \* no manifest of the package
       \/ \E keys \in ManifestExportKeys, v \in ManifestVersions, d \in ManifestDependencies :
             versionChecked([exports |-> dotKeys(keys), version |-> v, deps |-> d], <<>>,
                            stdout, stderr)
    /\ UNCHANGED <<flags, toolStderr, deferredState, results, cleanup, workspace, cleanupRuns,
                   rendered, loopData, exportsData, failedStep, exitArg, exitCode, exitVia,
                   nmFiles, report, sourcemaps, compositionMap, sizeVars, exploreVars,
                   attrVars, probeVars>>

\* what console.log prints for an array of strings
RECURSIVE quoted(_)
quoted(list) ==
    IF Len(list) = 1 THEN "'" \o list[1] \o "'"
    ELSE "'" \o Head(list) \o "', " \o quoted(Tail(list))
inspect(list) == IF list = <<>> THEN "[]" ELSE "[ " \o quoted(list) \o " ]"

\* interactiveMode up to its first prompt, the exports prompt
promptForExports ==
    /\ pc = "interactiveMode"
    /\ stdout' = Append(stdout, "prompt:exports")
    /\ Goto("prompt:exports")
    /\ UNCHANGED <<flags, toolStderr, deferredState, results, cleanup, workspace, cleanupRuns,
                   rendered, resolved, pkgExports, packageVersion, selected, loopData,
                   exportsData, failedStep, exitArg, exitCode, exitVia, nmFiles, deps, stderr,
                   report, sourcemaps, compositionMap, sizeVars, exploreVars, attrVars,
                   probeVars>>

\* the exports prompt is answered, or cancelled: selectedExports is then
\* undefined; the dependencies prompt is shown in both cases
exportsChosen ==
    /\ pc = "prompt:exports"
    /\ \/ /\ trace' = trace \o <<"cancelled:exports", "prompt:dependencies">>
          /\ UNCHANGED selected
       \/ /\ \E idx \in SUBSET enabledChoices(pkgExports) :
                selected' = SelectIdx(pkgExports, idx, 1)
          /\ trace' = Append(trace, "prompt:dependencies")
    /\ pc' = "prompt:dependencies"
    /\ stdout' = Append(stdout, "prompt:dependencies")
    /\ UNCHANGED <<flags, toolStderr, deferredState, results, cleanup, workspace, cleanupRuns,
                   rendered, resolved, pkgExports, packageVersion, loopData, exportsData,
                   failedStep, exitArg, exitCode, exitVia, nmFiles, deps, stderr, report,
                   sourcemaps, compositionMap, sizeVars, exploreVars, attrVars, probeVars>>

\* selectedExports after a cancelled exports prompt
exportsUndefined == \E i \in 1..Len(trace) : trace[i] = "cancelled:exports"

\* the dependencies prompt is answered or cancelled, both selections are
\* printed and returned.  selectedDependencies.push(packageName) throws at the
\* top level when the dependencies are undefined; getExportsData(undefined)
\* throws inside its wrapWithLogger, which is fatal
dependenciesChosen ==
    /\ pc = "prompt:dependencies"
    /\ LET exportsText == IF exportsUndefined THEN "undefined" ELSE inspect(selected)
       IN \/ /\ stdout' = Append(stdout, exportsText \o " undefined")
             /\ Uncaught
             /\ UNCHANGED <<failedStep, exitArg>>
          \/ \E idx \in SUBSET (1..Len(deps)) :
               /\ stdout' = Append(stdout, exportsText \o " " \o inspect(SelectIdx(deps, idx, 1)))
               /\ IF exportsUndefined
                  THEN Fatal("getExportsData")
                  ELSE /\ Goto("getExportsData")
                       /\ UNCHANGED <<failedStep, exitArg, stderr>>
               /\ UNCHANGED <<exitCode, exitVia>>
    /\ UNCHANGED <<flags, toolStderr, deferredState, results, cleanup, workspace, cleanupRuns,
                   rendered, resolved, pkgExports, packageVersion, selected, loopData,
                   exportsData, nmFiles, deps, report, sourcemaps, compositionMap, sizeVars,
                   exploreVars, attrVars, probeVars>>

\* the candidates whose probe has not settled
probesPending == {i \in 1..Len(packageExports(selected)) :
                    \A k \in 1..Len(loopData) : loopData[k].candidate # i}

\* getExportsData: Promise.all over one probe per candidate, all started
\* together; one probe settles (`node -e "import pkg from ..."` exits normally:
\* true, with an error: false); when the last one has settled the entries are
\* returned in the order of the candidates
probeSettles ==
    /\ pc = "getExportsData"
    /\ LET candidates == packageExports(selected)
           answer(settled, i) ==
               LET k == CHOOSE j \in 1..Len(settled) : settled[j].candidate = i
               IN settled[k].hasDefaultExport
       IN IF candidates = <<>>
          THEN /\ exportsData' = <<>>
               /\ Goto("buildPackage")
               /\ UNCHANGED <<loopData, stdout>>
          ELSE \E i \in probesPending, imported \in BOOLEAN :
                 LET settled == Append(loopData, [candidate |-> i, hasDefaultExport |-> imported])
                 IN /\ loopData' = settled
                    /\ stdout' = IF imported THEN execEcho(stdout, flags, toolStderr["node"])
                                 ELSE stdout
                    /\ IF Len(settled) = Len(candidates)
                       THEN /\ exportsData' = [c \in 1..Len(candidates) |->
                                                 [import |-> candidates[c].import,
                                                  export |-> candidates[c].export,
                                                  hasDefaultExport |-> answer(settled, c)]]
                            /\ Goto("buildPackage")
                       ELSE UNCHANGED <<exportsData, pc, trace>>
    /\ UNCHANGED <<flags, toolStderr, deferredState, results, cleanup, workspace, cleanupRuns,
                   rendered, resolved, pkgExports, packageVersion, selected, failedStep,
                   exitArg, exitCode, exitVia, nmFiles, deps, stderr, report, sourcemaps,
                   compositionMap, sizeVars, exploreVars, attrVars, probeVars>>

\* printResults: the table of the records, then the composition table
printTables ==
    /\ pc = "printResults"
    /\ rendered' = rendered + 1
    /\ report' = tableResult(<<>>, results, compositionMap)
    /\ stdout' = stdout \o tableLines(<<>>, compositionMap)
    /\ Goto("cleanup")
    /\ UNCHANGED <<flags, toolStderr, deferredState, results, cleanup, workspace, cleanupRuns,
                   resolved, pkgExports, packageVersion, selected, loopData, exportsData,
                   failedStep, exitArg, exitCode, exitVia, nmFiles, deps, stderr, sourcemaps,
                   compositionMap, sizeVars, exploreVars, attrVars, probeVars>>

NextVersion == \/ getCliArgs
               \/ validateExports
               \/ createDirs
               \/ installPackage
               \/ calculateNodeModulesSize
               \/ deferredFilesInDir
               \/ deferredDirSize
               \/ deferredReject
               \/ resolveEntryPoint
               \/ resolveManifest
               \/ promptForExports
               \/ exportsChosen
               \/ dependenciesChosen
               \/ probeSettles
               \/ buildPackage
               \/ buildPackageRun
               \/ exploreSourcemaps
               \/ prunePackage
               \/ calculateDistSize
               \/ succeed
               \/ exitAndReport
               \/ printTables
               \/ runCleanup

SpecVersion == InitVersion /\ [][NextVersion]_vars

(***************************************************************************)
(* SpecSize: dirCompressedSize with its per-file callbacks                 *)
(***************************************************************************)
idlePipe == /\ pipeVarsInit([version |-> "", json |-> FALSE, interactive |-> FALSE, noClean |-> FALSE,
                             noGzip |-> FALSE, brotli |-> FALSE, export |-> <<".">>],
                            QuietTools)
            /\ pc = "idle"
            /\ trace = <<>>
            /\ compositionMap = <<>>

InitSize == /\ idlePipe
            /\ exploreVarsInit
            /\ attrVarsInit
            /\ probeVarsInit
            /\ szFiles \in FileLists
            /\ szMethods \in MethodLists
            /\ szPc = "start"
            /\ taskPc = [i \in 1..Len(szFiles) |-> "idle"]
            /\ dcsResults = NoTotals
            /\ szReturned = NoTotals
            /\ szOrder = <<>>

\* mutant: the accumulator is assigned instead of incremented
addTo_assign(r, method, length) == [r EXCEPT ![method] = length]

\* results[method] += length
addTo(r, method, length) == [r EXCEPT ![method] = @ + length]

\* the await that follows the given one in a per-file callback
afterRead(methodsSet) ==
    IF "gzip" \in methodsSet THEN "gzip" ELSE IF "brotli" \in methodsSet THEN "brotli" ELSE "done"
afterGzip(methodsSet) == IF "brotli" \in methodsSet THEN "brotli" ELSE "done"

finishedAt(i, next) == IF next = "done" THEN Append(szOrder, i) ELSE szOrder

\* entry of dirCompressedSize: the 'none'-only shortcut, or the accumulator is
\* zeroed and one callback per path is started
dcsStart ==
    /\ szPc = "start"
    /\ LET methodsSet == Range(szMethods)
       IN IF "none" \in methodsSet /\ Cardinality(methodsSet) = 1
          THEN /\ szPc' = "dirSize"
               /\ UNCHANGED <<dcsResults, taskPc>>
          ELSE /\ dcsResults' = [m \in methodsSet |-> 0]
               /\ taskPc' = [i \in 1..Len(szFiles) |-> "readFile"]
               /\ szPc' = "awaitAll"
    /\ UNCHANGED <<szFiles, szMethods, szReturned, szOrder, pipeVars, compositionMap, exploreVars, attrVars, probeVars>>

\* return { none: await dirSize(paths) }
dcsDirSize ==
    /\ szPc = "dirSize"
    /\ szReturned' = [m \in {"none"} |-> dirSize(szFiles)]
    /\ szPc' = "returned"
    /\ UNCHANGED <<szFiles, szMethods, taskPc, dcsResults, szOrder, pipeVars, compositionMap, exploreVars, attrVars, probeVars>>

\* readFile of one path resolves: results.none += fileContent.length, then gzip starts
readFileDone(i) ==
    /\ szPc = "awaitAll"
    /\ taskPc[i] = "readFile"
    /\ LET methodsSet == Range(szMethods)
           next == afterRead(methodsSet)
       IN /\ dcsResults' = IF "none" \in methodsSet
                           THEN addTo(dcsResults, "none", szFiles[i].size)
                           ELSE dcsResults
          /\ taskPc' = [taskPc EXCEPT ![i] = next]
          /\ szOrder' = finishedAt(i, next)
    /\ UNCHANGED <<szFiles, szMethods, szPc, szReturned, pipeVars, compositionMap, exploreVars, attrVars, probeVars>>

\* gzip of one file resolves: results.gzip += length, then brotli starts
gzipDone(i) ==
    /\ szPc = "awaitAll"
    /\ taskPc[i] = "gzip"
    /\ LET next == afterGzip(Range(szMethods))
       IN /\ dcsResults' = addTo(dcsResults, "gzip", szFiles[i].gzip)
          /\ taskPc' = [taskPc EXCEPT ![i] = next]
          /\ szOrder' = finishedAt(i, next)
    /\ UNCHANGED <<szFiles, szMethods, szPc, szReturned, pipeVars, compositionMap, exploreVars, attrVars, probeVars>>

\* brotli of one file resolves: results.brotli += length
brotliDone(i) ==
    /\ szPc = "awaitAll"
    /\ taskPc[i] = "brotli"
    /\ dcsResults' = addTo(dcsResults, "brotli", szFiles[i].brotli)
    /\ taskPc' = [taskPc EXCEPT ![i] = "done"]
    /\ szOrder' = Append(szOrder, i)
    /\ UNCHANGED <<szFiles, szMethods, szPc, szReturned, pipeVars, compositionMap, exploreVars, attrVars, probeVars>>

\* Promise.all resolves: return results
dcsReturn ==
    /\ szPc = "awaitAll"
    /\ \A i \in 1..Len(szFiles) : taskPc[i] = "done"
    /\ szReturned' = dcsResults
    /\ szPc' = "returned"
    /\ UNCHANGED <<szFiles, szMethods, taskPc, dcsResults, szOrder, pipeVars, compositionMap, exploreVars, attrVars, probeVars>>

NextSize == \/ dcsStart
            \/ dcsDirSize
            \/ \E i \in 1..Len(szFiles) : readFileDone(i)
            \/ \E i \in 1..Len(szFiles) : gzipDone(i)
            \/ \E i \in 1..Len(szFiles) : brotliDone(i)
            \/ dcsReturn

SpecSize == InitSize /\ [][NextSize]_vars

(***************************************************************************)
(* SpecExplore: the attribution loop of exploreSourcemaps over the entries  *)
(* of an analyzer document                                                 *)
(***************************************************************************)
InitExplore == /\ idlePipe
               /\ sizeVarsInit
               /\ probeVarsInit
               /\ exPc = "parsed"
               /\ exSeen = {}
               /\ exCount = 0
               /\ exBundles = 0
               /\ exLast = <<"", 0>>
               /\ attrVarsInit

\* for (const results of json.results): the next element
enterBundle ==
    /\ exPc \in {"parsed", "inBundle"}
    /\ exBundles < MaxBundles
    /\ exBundles' = exBundles + 1
    /\ exSeen' = {}
    /\ exPc' = "inBundle"
    /\ UNCHANGED <<exCount, exLast, compositionMap, pipeVars, sizeVars, probeVars, attrVars>>

\* for (const [key, result] of Object.entries(results.files)): the next entry
visitEntry ==
    /\ exPc = "inBundle"
    /\ exCount < MaxEntries
    /\ \E key \in SourcePaths \ exSeen, size \in EntrySizes :
         /\ compositionMap' = attribute(compositionMap, key, size)
         /\ exSeen' = exSeen \cup {key}
         /\ exLast' = <<key, size>>
    /\ exCount' = exCount + 1
    /\ UNCHANGED <<exPc, exBundles, pipeVars, sizeVars, probeVars, attrVars>>

\* both loops are exhausted (or the document has no results array)
exploreDone ==
    /\ exPc \in {"parsed", "inBundle"}
    /\ exPc' = "done"
    /\ UNCHANGED <<exSeen, exCount, exBundles, exLast, compositionMap, pipeVars, sizeVars,
                   probeVars, attrVars>>

NextExplore == enterBundle \/ visitEntry \/ exploreDone

SpecExplore == InitExplore /\ [][NextExplore]_vars

(***************************************************************************)
(* SpecProbe: getExportsData, one hasDefaultExport probe after the other   *)
(***************************************************************************)
\* export lists handed to getExportsData: --export values that passed
\* validateExports, or a selection of the interactive prompt
ProbeExportLists == SeqsUpTo({".", "./a", "./b", "./"}, MaxExports)

InitProbe == /\ idlePipe
             /\ sizeVarsInit
             /\ exploreVarsInit
             /\ attrVarsInit
             /\ prExports \in ProbeExportLists
             /\ prPc = "start"
             /\ prData = <<>>
             /\ prOutcomes = <<>>
             /\ prFile = ""
             /\ prBuilds = <<>>

\* mutant: every round of the loop probes the first candidate
prCandidate_first == packageExports(prExports)[1]

\* the candidate the loop is at
prCandidate == packageExports(prExports)[Len(prData) + 1]

\* data.push({ ...packageExport, hasDefaultExport: ... }) and the loop condition
prPush(o) ==
    /\ prData' = Append(prData, [import |-> prCandidate.import,
                                 export |-> prCandidate.export,
                                 hasDefaultExport |-> hasDefaultExport(o)])
    /\ prOutcomes' = Append(prOutcomes, o)
    /\ prPc' = IF Len(prData) + 1 < Len(packageExports(prExports)) THEN "writeFile" ELSE "return"

\* the candidates are computed, the loop is entered
probeStart ==
    /\ prPc = "start"
    /\ prPc' = IF Len(packageExports(prExports)) > 0 THEN "writeFile" ELSE "return"
    /\ UNCHANGED <<prExports, prData, prOutcomes, prFile, prBuilds, pipeVars, compositionMap,
                   sizeVars, exploreVars, attrVars>>

\* hasDefaultExport: writeFile of the probe source; a rejection is caught
probeWriteFile ==
    /\ prPc = "writeFile"
    /\ \/ /\ prFile' = probeSource(prCandidate.import)
          /\ prPc' = "pkgbld"
          /\ UNCHANGED <<prData, prOutcomes, stdout>>
       \/ /\ prPush(WriteRejected)
          \* catch (e) { logger.log(e); return false; }
          /\ stdout' = loggerLog(stdout, flags, <<"error:probe">>)
          /\ UNCHANGED prFile
    /\ UNCHANGED <<prExports, prBuilds, quietPipeVars, compositionMap, sizeVars, exploreVars,
                   attrVars>>

\* hasDefaultExport: the probe build finishes, its stderr or its error is read
probeBuild ==
    /\ prPc = "pkgbld"
    /\ \E o \in ProbeOutcomes :
          /\ prPush(o)
          \* catch (e) { logger.log(e); return false; }
          /\ stdout' = IF o.threw THEN loggerLog(stdout, flags, <<"error:probe">>) ELSE stdout
    \* pkgbld bundles the src/index.js that is in the workspace now
    /\ prBuilds' = Append(prBuilds, [candidate |-> Len(prData) + 1,
                                   import |-> prCandidate.import, file |-> prFile])
    /\ UNCHANGED <<prExports, prFile, quietPipeVars, compositionMap, sizeVars, exploreVars,
                   attrVars>>

\* return data
probeReturn ==
    /\ prPc = "return"
    /\ prPc' = "returned"
    /\ UNCHANGED <<prExports, prData, prOutcomes, prFile, prBuilds, pipeVars, compositionMap,
                   sizeVars, exploreVars, attrVars>>

NextProbe == probeStart \/ probeWriteFile \/ probeBuild \/ probeReturn

SpecProbe == InitProbe /\ [][NextProbe]_vars

(***************************************************************************)
(* SpecAttr: exploreSourcemaps attributing whole analyzer documents        *)
(***************************************************************************)
\* results[].files entry lists: the same entries in two orders, two files of
\* one package, excluded entries, a path outside node_modules, an empty list
AttrBundles ==
    { << <<"../node_modules/p/i.js", MaxSize>>, <<"../node_modules/d/i.js", 1>> >>,
      << <<"../node_modules/d/i.js", 1>>, <<"../node_modules/p/i.js", MaxSize>> >>,
      << <<"../node_modules/d/j.js", 1>>, <<"../node_modules/d/i.js", MaxSize>>,
         <<SourceMappingURLKey, 1>> >>,
      << <<"../src/index.js", 0>>, <<EOLsKey, 1>> >>,
      << <<"../node_modules/@scope/pkg/file.js", 1>>, <<"../src/index.js", 1>> >>,
      << >> }

AttrDocs == SeqsUpTo(AttrBundles, MaxBundles)

InitAttr == /\ idlePipe
            /\ sizeVarsInit
            /\ exploreVarsInit
            /\ probeVarsInit
            /\ atDoc \in AttrDocs
            /\ atNext = 1
            /\ atPass = 1
            /\ atPc = "loop"
            /\ atFirst = <<>>

\* one round of `for (const results of json.results)`: every entry of the element
attrBundle ==
    /\ atPc = "loop"
    /\ atNext <= Len(atDoc)
    /\ compositionMap' = attributeFiles(compositionMap, atDoc[atNext])
    /\ atNext' = atNext + 1
    /\ UNCHANGED <<atDoc, atPass, atPc, atFirst, pipeVars, sizeVars, exploreVars, probeVars>>

\* the outer loop is exhausted
attrDone ==
    /\ atPc = "loop"
    /\ atNext > Len(atDoc)
    /\ atPc' = "done"
    /\ atFirst' = IF atPass = 1 THEN compositionMap ELSE atFirst
    /\ UNCHANGED <<atDoc, atNext, atPass, compositionMap, pipeVars, sizeVars, exploreVars,
                   probeVars>>

\* the same document is attributed once more into the same composition Map
attrAgain ==
    /\ atPc = "done"
    /\ atPass = 1
    /\ atPass' = 2
    /\ atNext' = 1
    /\ atPc' = "loop"
    /\ UNCHANGED <<atDoc, atFirst, compositionMap, pipeVars, sizeVars, exploreVars, probeVars>>

NextAttr == attrBundle \/ attrDone \/ attrAgain

SpecAttr == InitAttr /\ [][NextAttr]_vars

(***************************************************************************)
(* Properties of the pipeline                                              *)
(***************************************************************************)
Happened(e) == \E i \in 1..Len(trace) : trace[i] = e
InvalidExport(e) == (\E i \in 1..Len(e) : SubSeq(e, i, i) = "*") \/ Len(e) = 0 \/ SubSeq(e, 1, 1) # "."
SomeInvalidExport == \E i \in 1..Len(flags.export) : InvalidExport(flags.export[i])
\* the part of the trace from the report of the fatal failure on
RECURSIVE FromFailure(_)
FromFailure(t) ==
    IF t = <<>> THEN <<>>
    ELSE IF startsWith(Head(t), "fail:") THEN Tail(t) ELSE FromFailure(Tail(t))

\* C1 (as claimed): whenever createDirs registered the workspace cleanup, the
\* cleanup function has run exactly once when the process terminates, on
\* every termination path.
C1_CleanupOnEveryExit ==
    (pc = "exited" /\ Len(cleanup) > 0) => cleanupRuns = 1

\* C2 (as claimed): after a fatal step failed, the run joins the deferred
\* measurement, renders once, cleans up once and exits with status 1, in this
\* order, starting no later pipeline step, in table and in JSON mode.
C2_FatalFailureSequence ==
    (pc = "exited" /\ failedStep # "none") =>
        /\ FromFailure(trace) = <<"exitAndReport", "printResults", "cleanup", "exit">>
        /\ deferredState \in {"none", "done"}
        /\ rendered = 1
        /\ cleanupRuns = Len(cleanup)
        /\ exitVia = "process.exit"
        /\ exitCode = 1

\* C3: with an export that contains '*' or does not start with '.', no
\* workspace is ever created, createDirs and installPackage are never
\* started, and the process terminates with status 1.
C3_InvalidExportsStopBeforeCreateDirs ==
    SomeInvalidExport =>
        /\ workspace = "none"
        /\ cleanup = <<>>
        /\ ~Happened("createDirs")
        /\ ~Happened("installPackage")
        /\ pc \in {"getCliArgs", "validateExports", "exited"}
        /\ (pc = "exited" => exitCode = 1 /\ exitVia = "process.exit")

C3_Witness ==
    /\ pc = "exited"
    /\ SomeInvalidExport
    /\ Happened("error:exports")
    /\ exitCode = 1

\* C4: with --json and --interactive together the process terminates with a
\* non-zero status inside getCliArgs: nothing after argument parsing is
\* started, no workspace, no install, no prompt.
C4_JsonInteractiveRejected ==
    (flags.json /\ flags.interactive) =>
        /\ pc \in {"getCliArgs", "exited"}
        /\ workspace = "none"
        /\ ~Happened("validateExports")
        /\ ~Happened("createDirs")
        /\ ~Happened("installPackage")
        /\ ~Happened("interactiveMode")
        /\ (pc = "exited" => exitCode # 0)

C4_Witness ==
    /\ pc = "exited"
    /\ flags.json /\ flags.interactive
    /\ Happened("error:json+interactive")
    /\ exitCode = 1

\* C5 (as claimed): exit status 0 whenever validation passed and every fatal
\* step succeeded.
C5_ZeroWheneverFatalStepsSucceed ==
    (pc = "exited" /\ ~SomeInvalidExport /\ Happened("succeed")) => exitCode = 0

\* C5 (amended): the exit status is 0 exactly when all fatal steps succeeded,
\* the deferred node_modules measurement resolved and the removal of the
\* workspace did not fail; it is 1 in every other terminated run, in
\* particular after a validation failure or a fatal failure; the manifest
\* fallback does not change it.
C5_ExitStatus ==
    pc = "exited" =>
        /\ exitCode \in {0, 1}
        /\ exitCode = 0 <=> /\ Happened("succeed")
                            /\ deferredState = "done"
                            /\ ~Happened("reject:rm")
        /\ (SomeInvalidExport \/ failedStep # "none") => exitCode = 1
        /\ exitCode = 0 => (~SomeInvalidExport /\ failedStep = "none")

C5_Witness ==
    /\ pc = "exited"
    /\ exitCode = 0
    /\ packageVersion = "<unknown>"
    /\ Happened("succeed")

(***************************************************************************)
(* Properties of dirCompressedSize                                         *)
(***************************************************************************)
RawSizes == [i \in 1..Len(szFiles) |-> szFiles[i].size]
LengthsUnder(method) ==
    [i \in 1..Len(szFiles) |->
        CASE method = "none" -> szFiles[i].size
          [] method = "gzip" -> szFiles[i].gzip
          [] method = "brotli" -> szFiles[i].brotli]

\* C6: whenever 'none' is requested, alone or with gzip and/or brotli, the
\* returned 'none' total is the sum of the raw file sizes, the value of
\* dirSize on the same paths.
C6_NoneTotalIsDirSize ==
    (szPc = "returned" /\ "none" \in Range(szMethods)) =>
        /\ "none" \in DOMAIN szReturned
        /\ szReturned["none"] = dirSize(szFiles)
        /\ szReturned["none"] = SumSeq(RawSizes)

C6_Witness ==
    /\ szPc = "returned"
    /\ szMethods = <<"none", "gzip">>
    /\ Len(szFiles) = MaxFiles
    /\ szReturned["none"] = dirSize(szFiles)
    /\ szReturned["none"] >= 2

\* C7: for every completion order of the per-file callbacks, the returned
\* object has exactly the requested methods and each total is the sum of
\* the files' lengths under that method.
C7_TotalsAreSums ==
    szPc = "returned" =>
        /\ DOMAIN szReturned = Range(szMethods)
        /\ \A m \in Range(szMethods) : szReturned[m] = SumSeq(LengthsUnder(m))
        /\ szReturned = dirCompressedSize(szFiles, szMethods)

\* two files, all three methods, the second file's callback finished first
C7_Witness ==
    /\ szPc = "returned"
    /\ szMethods = <<"none", "gzip", "brotli">>
    /\ szOrder = <<2, 1>>
    /\ szReturned["gzip"] = szFiles[1].gzip + szFiles[2].gzip
    /\ szFiles[1].gzip # szFiles[2].gzip

(***************************************************************************)
(* Properties of the attribution loop                                      *)
(***************************************************************************)
Visited == exCount' = exCount + 1
LastKey == exLast'[1]
LastSize == exLast'[2]
InNodeModules(key) == Len(key) >= 16 /\ SubSeq(key, 1, 16) = "../node_modules/"

\* the text up to the first '/' after the prefix, up to the second one when the
\* text after the prefix starts with '@'; everything when there is no such '/'
OwnerOf(key) ==
    LET rest == SubSeq(key, 17, Len(key))
        slashes == {i \in 1..Len(rest) : SubSeq(rest, i, i) = "/"}
        k == IF Len(rest) > 0 /\ SubSeq(rest, 1, 1) = "@" THEN 2 ELSE 1
        cut == IF Cardinality(slashes) < k THEN Len(rest) + 1
               ELSE CHOOSE i \in slashes : Cardinality({j \in slashes : j < i}) = k - 1
    IN SubSeq(rest, 1, cut - 1)

\* the visit adds size to the entry `k` and leaves every other entry as it was
CreditedTo(k, size) ==
    /\ MapValue(compositionMap', k) = MapValue(compositionMap, k) + size
    /\ MapHas(compositionMap', k)
    /\ \A other \in (MapKeys(compositionMap) \cup MapKeys(compositionMap')) \ {k} :
          MapValue(compositionMap', other) = MapValue(compositionMap, other)

\* C8: an entry under '../node_modules/' with non-zero size adds all its
\* bytes to the key made of the first path segment after the prefix, or of
\* the first two segments when the first starts with '@'.
C8_NodeModulesKey ==
    [][(Visited /\ InNodeModules(LastKey) /\ LastSize # 0)
          => CreditedTo(OwnerOf(LastKey), LastSize)]_vars

C8_Witness ==
    /\ exLast = <<"../node_modules/@scope/pkg/file.js", 2>>
    /\ MapHas(compositionMap, "@scope/pkg")
    /\ MapGet(compositionMap, "@scope/pkg") = 2
    /\ ~MapHas(compositionMap, "@scope")

\* C9 (as claimed): an entry outside '../node_modules/' with non-zero size,
\* other than the excluded sentinel, adds its bytes to the single self key,
\* the key the report renders as the self row (the package name).
C9_OutsidePathsGoToSelf ==
    [][(Visited /\ ~InNodeModules(LastKey) /\ LastSize # 0 /\ LastKey # SourceMappingURLKey)
          => CreditedTo(packageName, LastSize)]_vars

\* C9 (amended): such an entry adds its bytes to the entry keyed by the path
\* itself; the self row, keyed by the package name, is left unchanged and is
\* fed by the measured package's own files under '../node_modules/'.
C9_OutsidePathsKeepOwnKey ==
    [][(Visited /\ ~InNodeModules(LastKey) /\ LastSize # 0 /\ LastKey # SourceMappingURLKey)
          => /\ CreditedTo(LastKey, LastSize)
             /\ MapValue(compositionMap', packageName) = MapValue(compositionMap, packageName)]_vars

C9_Witness ==
    /\ exLast = <<"../src/index.js", 2>>
    /\ MapHas(compositionMap, "../src/index.js")
    /\ MapHas(compositionMap, EOLsKey)
    /\ MapHas(compositionMap, packageName)
    /\ Len(compositionMap) = 3

\* C10 (as claimed): the end-of-lines marker entry and every entry of size 0
\* leave the composition map unchanged.
C10_EOLsAndZeroExcluded ==
    [][(Visited /\ (LastKey = EOLsKey \/ LastSize = 0))
          => compositionMap' = compositionMap]_vars

\* C10 (amended): the '[sourceMappingURL]' marker entry and every entry of
\* size 0 leave the composition map unchanged; the '[EOLs]' entry with a
\* non-zero size is attributed under the key '[EOLs]'.
C10_SourceMappingURLAndZeroExcluded ==
    [][/\ (Visited /\ (LastKey = SourceMappingURLKey \/ LastSize = 0))
             => compositionMap' = compositionMap
       /\ (Visited /\ LastKey = EOLsKey /\ LastSize # 0)
             => CreditedTo(EOLsKey, LastSize)]_vars

C10_Witness ==
    /\ exLast = <<SourceMappingURLKey, 2>>
    /\ exCount = 2
    /\ Len(compositionMap) = 1
    /\ ~MapHas(compositionMap, SourceMappingURLKey)

(***************************************************************************)
(* Properties of the collected results and composition                     *)
(***************************************************************************)
ReportOfSuccess == pc = "printResults" /\ Happened("succeed")
CompositionTotal == SumSeq([i \in 1..Len(compositionMap) |-> compositionMap[i][2]])
HasRecord(id) == \E i \in 1..Len(results) : results[i].id = id
RecordValue(id) == results[CHOOSE i \in 1..Len(results) : results[i].id = id].value
RecordIds == {"sizeMinified", "sizeMinifiedGzipped", "sizeMinifiedBrotli",
              "nodeModulesSize", "nodeModulesFiles"}

\* C11 (as claimed): when a successful run reports, the composition entries
\* sum to at most the recorded sizeMinified and none of them has size 0.
C11_CompositionWithinMinified ==
    ReportOfSuccess =>
        /\ CompositionTotal <= RecordValue("sizeMinified")
        /\ \A i \in 1..Len(compositionMap) : compositionMap[i][2] # 0

\* C11 (amended): when a successful run reports, every composition entry has
\* a size of at least 1; the entries are sizes the analyzer reported for the
\* bundle before pruning and are not bounded by the recorded sizeMinified.
C11_NoEmptyCompositionEntry ==
    ReportOfSuccess =>
        \A i \in 1..Len(compositionMap) : compositionMap[i][2] >= 1

\* a successful run reports entries that sum to more than a non-zero sizeMinified
C11_Witness ==
    /\ ReportOfSuccess
    /\ Len(compositionMap) >= 2
    /\ RecordValue("sizeMinified") > 0
    /\ CompositionTotal > RecordValue("sizeMinified")

\* C12: in every reachable state the results hold at most one record for
\* each of the five ids, no record of another id, and every value is a
\* non-negative integer.
C12_OneRecordPerId ==
    /\ \A i \in 1..Len(results) : results[i].id \in RecordIds /\ results[i].value \in Nat
    /\ \A i, j \in 1..Len(results) : results[i].id = results[j].id => i = j

\* all five records are present
C12_Witness ==
    /\ \A id \in RecordIds : HasRecord(id)
    /\ Len(results) = 5
    /\ RecordValue("nodeModulesFiles") = 2

(***************************************************************************)
(* Properties of the export resolver                                       *)
(***************************************************************************)
ProbeThrew(i) == prOutcomes[i].threw
ProbeSawDiagnostic(i) == includes(prOutcomes[i].stderr, DefaultNotExported)

\* C13 (as claimed): an export is marked as having no default export exactly
\* when the error output of its probe build contains the diagnostic; in every
\* other outcome, a probe build that exits with an error included, it is
\* marked as having a default export.
C13_NoDefaultOnlyOnDiagnostic ==
    \A i \in 1..Len(prData) :
        prData[i].hasDefaultExport = ~ProbeSawDiagnostic(i)

\* C13 (amended): an export is marked as having a default export exactly when
\* its probe file was written, its probe build exited without an error and
\* the build's stderr does not contain '"default" is not exported by'; it is
\* marked as having no default export when the stderr contains that text and
\* also whenever the probe throws (writeFile rejects or the build exits with
\* an error), whatever the error output says.
C13_DefaultOnlyAfterCleanProbe ==
    \A i \in 1..Len(prData) :
        prData[i].hasDefaultExport = (~ProbeThrew(i) /\ ~ProbeSawDiagnostic(i))

\* a probe build that exits with an error not containing the diagnostic is
\* followed by a probe that finds a default export
C13_Witness ==
    /\ prPc = "returned"
    /\ Len(prData) = 2
    /\ ProbeThrew(1) /\ ~ProbeSawDiagnostic(1) /\ prOutcomes[1] # WriteRejected
    /\ ~prData[1].hasDefaultExport
    /\ prData[2].hasDefaultExport

\* C14: when the installed package declares no subpath exports and the
\* requested export list is exactly <<".">>, getExportsData returns exactly
\* one entry, with export path "." and the bare package name as import.
C14_RootOnly ==
    (Happened("buildPackage") /\ pkgExports = <<>> /\ selected = <<".">>) =>
        /\ Len(exportsData) = 1
        /\ exportsData[1].export = "."
        /\ exportsData[1].import = packageName

C14_Witness ==
    /\ pc = "buildPackage"
    /\ pkgExports = <<>>
    /\ packageVersion = "1.0.0"
    /\ selected = <<".">>
    /\ Len(exportsData) = 1
    /\ exportsData[1].import = "p"

(***************************************************************************)
(* Properties of resolvePackageJson and the version check                  *)
(***************************************************************************)
VersionMismatch == resolved /\ flags.version # "" /\ flags.version # packageVersion
Warned == ("Installed version is " \o packageVersion) \in Range(stderr)
ResolveFailed == \E cause \in ResolveFailures : Happened("resolveFailed:" \o cause)
PastResolve == Happened("getExportsData") \/ Happened("interactiveMode")
ExitedWithSuccess == pc = "exited" /\ exitVia = "process.exit" /\ exitCode = 0

\* C15: when a version was given on the command line and the version of the
\* installed manifest differs from it, the warning naming the installed
\* version is written to standard error, the mismatch does not fail the step
\* or end the run (the pipeline moves on to the next step), and a run that
\* then succeeds went through build and measurement and reports the installed
\* version; without a mismatch no such warning is written.
C15_VersionMismatchWarns ==
    /\ VersionMismatch =>
          /\ Warned
          /\ PastResolve
          /\ failedStep # "resolvePackageJson"
          /\ ExitedWithSuccess =>
                /\ Happened("buildPackage") /\ Happened("calculateDistSize")
                /\ HasRecord("sizeMinified")
                /\ ("Package: " \o packageName \o "@" \o packageVersion) \in Range(stderr)
    /\ (resolved /\ ~VersionMismatch) => ~Warned

C15_Witness ==
    /\ ExitedWithSuccess
    /\ flags.version = "latest"
    /\ packageVersion = "1.0.0"
    /\ "Installed version is 1.0.0" \in Range(stderr)
    /\ "Package: p@1.0.0" \in Range(stderr)
    /\ HasRecord("sizeMinified")

\* C16: a failure to locate or read the manifest never ends the run in
\* resolvePackageJson: the step yields exports <<>>, version "<unknown>" and
\* deps <<>>, and the pipeline moves on to export resolution and build.
C16_ManifestFailureFallsBack ==
    /\ ~Happened("fail:resolvePackageJson")
    /\ failedStep # "resolvePackageJson"
    /\ ResolveFailed =>
          /\ pkgExports = <<>>
          /\ packageVersion = "<unknown>"
          /\ deps = <<>>
          /\ PastResolve
          /\ ~flags.interactive => Happened("getExportsData")

C16_Witness ==
    /\ Happened("resolveFailed:manifest")
    /\ packageVersion = "<unknown>"
    /\ deps = <<>>
    /\ Len(exportsData) = 1
    /\ pc = "exploreSourcemaps"
    /\ failedStep = "none"

(***************************************************************************)
(* Properties of the output                                                *)
(***************************************************************************)
IncludedExports ==
    [i \in 1..Len(exportsData) |->
        [export |-> exportsData[i].export, defaultExport |-> exportsData[i].hasDefaultExport]]
Reported == rendered = 1 /\ pc \in {"cleanup", "exited"}
IsNodeModulesRecord(id) == id \in {"nodeModulesSize", "nodeModulesFiles"}
\* rows: the measured package, if it has an entry, is the first row, and the
\* other rows are in non-increasing order of size
SelfFirstThenDescending(rows, selfName) ==
    /\ \A i \in 1..Len(rows) : rows[i][1] = selfName => i = 1
    /\ \A i, j \in 1..Len(rows) :
          (i < j /\ rows[i][1] # selfName) => rows[i][2] >= rows[j][2]

\* C17: in JSON mode nothing but the JSON document is ever written to
\* standard output, a successful run writes exactly that one document, and
\* the document carries the metadata, the declared exports, the included
\* exports, the records and the composition entries as they were collected.
C17_JsonModeSingleDocument ==
    flags.json =>
        /\ stdout \in {<<>>, <<"json">>}
        /\ ExitedWithSuccess =>
              /\ stdout = <<"json">>
              /\ report.format = "json"
              /\ report.metadata = [name |-> packageName, version |-> packageVersion]
              /\ report.exports = pkgExports
              /\ report.includedExports = IncludedExports
              /\ report.results = results
              /\ report.composition = compositionMap

\* a JSON run that kept its workspace and built a package with declared
\* subpath exports, both of which write lines in table mode
C17_Witness ==
    /\ ExitedWithSuccess
    /\ flags.json /\ flags.noClean
    /\ Len(pkgExports) = 3
    /\ stdout = <<"json">>
    /\ Len(report.results) = 5
    /\ Len(report.composition) = 3
    /\ Len(report.includedExports) = 2

\* C18 (as claimed): in the rendered report the node_modules records come
\* first, nodeModulesSize before nodeModulesFiles, and the dist records
\* follow, whenever the deferred measurement finished.
C18_NodeModulesRecordsFirst ==
    Reported =>
        \A i, j \in 1..Len(results) :
            /\ (IsNodeModulesRecord(results[i].id) /\ ~IsNodeModulesRecord(results[j].id)) => i < j
            /\ (results[i].id = "nodeModulesSize" /\ results[j].id = "nodeModulesFiles") => i < j

\* C19 (as claimed): with --no-clean the workspace is never removed and, when
\* the run ends through its cleanup phase, the path is the last thing written
\* to the operator, in table and in JSON mode; without --no-clean the cleanup
\* phase removes the workspace and writes no such line.
C19_NoCleanKeepsAndAnnounces ==
    /\ flags.noClean => workspace # "removed"
    /\ (pc = "exited" /\ cleanupRuns > 0) =>
          IF flags.noClean
          THEN /\ workspace = "present"
               /\ Len(stdout) > 0 /\ stdout[Len(stdout)] = CleanupNotice
          ELSE /\ workspace = "removed"
               /\ CleanupNotice \notin Range(stdout)

\* C20 (as claimed): in the table and in the JSON document the measured
\* package's entry is first and the other entries follow in non-increasing
\* order of size.
C20_CompositionSortedInBothFormats ==
    Reported =>
        SelfFirstThenDescending(report.composition,
                                IF report.format = "json" THEN packageName
                                ELSE packageName \o " (self)")

\* C20 (amended): the composition table lists the measured package's entry
\* first, marked (self), and the other entries in non-increasing order of
\* size, whatever the insertion order; the JSON document lists the entries in
\* the insertion order of the composition map, unsorted.
C20_TableSortedJsonVerbatim ==
    Reported =>
        IF report.format = "json"
        THEN report.composition = compositionMap
        ELSE /\ SelfFirstThenDescending(report.composition, packageName \o " (self)")
             /\ Len(report.composition) = Len(compositionMap)
             /\ \A i \in 1..Len(compositionMap) :
                   \E j \in 1..Len(report.composition) :
                       /\ report.composition[j][2] = compositionMap[i][2]
                       /\ report.composition[j][1] \in {compositionMap[i][1],
                                                        compositionMap[i][1] \o " (self)"}
             /\ MapHas(compositionMap, packageName) =>
                   report.composition[1] = <<packageName \o " (self)", MapGet(compositionMap, packageName)>>

\* a table whose rows are not in insertion order
C20_Witness ==
    /\ Reported
    /\ report.format = "table"
    /\ Len(compositionMap) = 3
    /\ compositionMap[3][1] = packageName
    /\ compositionMap[1][2] < compositionMap[2][2]
    /\ report.composition[1][1] = "p (self)"
    /\ report.composition[2][2] > report.composition[3][2]

(***************************************************************************)
(* C21  validateExports reports every violation of every entry             *)
(***************************************************************************)
\* the positions of the requested exports that break each rule
WithWildcard == {i \in 1..Len(flags.export) : includes(flags.export[i], "*")}
WithoutDot == {i \in 1..Len(flags.export) : ~startsWith(flags.export[i], ".")}
\* how many lines of standard error are the message m
Printed(m) == Cardinality({k \in 1..Len(stderr) : stderr[k] = m})

\* C21: when validateExports rejects the request, standard error holds exactly
\* one 'Wildcards are not supported' message per requested export containing
\* '*' and one 'Exports must start with a dot' message per requested export
\* not starting with '.', a value requested twice counting twice, so an export
\* violating both rules has two messages; all of them are printed before the
\* process exits with status 1.
C21_AllViolationsReported ==
    Happened("error:exports") =>
        /\ \A e \in Range(flags.export) :
             /\ Printed("Wildcards are not supported: " \o e) =
                    Cardinality({i \in WithWildcard : flags.export[i] = e})
             /\ Printed("Exports must start with a dot: " \o e) =
                    Cardinality({i \in WithoutDot : flags.export[i] = e})
        /\ Len(stderr) = Cardinality(WithWildcard) + Cardinality(WithoutDot)
        /\ pc = "exited"
        /\ exitCode = 1
        /\ exitVia = "process.exit"

\* a request that names twice an export violating both rules: four messages
C21_Witness ==
    /\ Happened("error:exports")
    /\ flags.export = <<"*", "*">>
    /\ Len(stderr) = 4
    /\ Printed("Wildcards are not supported: *") = 2

(***************************************************************************)
(* C22  one export specification per validated request                     *)
(***************************************************************************)
\* C22: once validateExports has accepted the command line's exports,
\* getExportsData produces exactly one entry of exportsData per requested
\* export: it drops nothing that validation accepted.
C22_EveryValidatedExportResolved ==
    (~flags.interactive /\ Happened("buildPackage")) =>
        /\ exportsErrors(flags.export) = <<>>
        /\ Len(exportsData) = Len(flags.export)

(***************************************************************************)
(* C23  the export field of exportsData                                    *)
(***************************************************************************)
\* C23: every entry of exportsData, with the selection taken from the command
\* line or from the prompt, has an export path that starts with '.' and
\* contains no '*'.
C23_ExportPathsDotPrefixed ==
    \A i \in 1..Len(exportsData) :
        /\ startsWith(exportsData[i].export, ".")
        /\ ~includes(exportsData[i].export, "*")

\* C23 (amended): every entry of exportsData, with the selection taken from the
\* command line or from the prompt, has a non-empty export field without '*'
\* that is a selected '.' itself or a selected './'-prefixed export with that
\* prefix removed, and an import field naming the package for '.' and the
\* package followed by '/' and the export field otherwise.  The field starts
\* with '.' only for a selected '.' or when the name after './' does
\* ('./.x' gives '.x', './.' gives '.').
C23_ExportNamesStripped ==
    \A i \in 1..Len(exportsData) :
        LET x == exportsData[i].export
        IN /\ ~includes(x, "*")
           /\ x # ""
           /\ \/ x = "." /\ "." \in Range(selected)
              \/ ("./" \o x) \in Range(selected)
           /\ exportsData[i].import =
                  (IF x = "." THEN packageName ELSE packageName \o "/" \o x)
           /\ startsWith(x, ".") =>
                  \/ x = "." /\ "." \in Range(selected)
                  \/ startsWith("./" \o x, "./.") /\ ("./" \o x) \in Range(selected)

\* the prompt's selection of two dot-named subpaths: the entry of './.x' holds
\* '.x', and the entry of './.' holds '.' although '.' was not selected
C23_Witness ==
    /\ flags.interactive
    /\ "." \notin Range(selected)
    /\ Len(exportsData) = 2
    /\ exportsData[1].export = ".x"
    /\ exportsData[2].export = "."
    /\ exportsData[2].import = packageName

(***************************************************************************)
(* C24  the deferred node_modules measurement                              *)
(***************************************************************************)
MeasurementStarted == Happened("deferred:start")

\* C24: the node_modules measurement is started only after installPackage has
\* succeeded and never when createDirs or installPackage fails; it may run
\* during the later steps, but the report is not rendered and no cleanup
\* function is run before a started measurement has finished.
C24_MeasurementBracketed ==
    /\ (MeasurementStarted \/ deferredState # "none") =>
          /\ Happened("calculateNodeModulesSize")
          /\ failedStep \notin {"createDirs", "installPackage"}
    /\ failedStep \in {"createDirs", "installPackage"} =>
          /\ ~MeasurementStarted
          /\ deferredState = "none"
    /\ (MeasurementStarted /\ (Happened("printResults") \/ rendered > 0 \/ cleanupRuns > 0
                                 \/ workspace = "removed")) =>
          deferredState = "done"

\* every step has been run, the measurement is still listing files, and the
\* report waits for it
C24_Witness ==
    /\ pc = "exitAndReport"
    /\ Happened("calculateDistSize")
    /\ failedStep = "none"
    /\ deferredState = "filesInDir"
    /\ rendered = 0
    /\ workspace = "present"

(***************************************************************************)
(* C25  composition totals are sums, whatever the order                    *)
(***************************************************************************)
\* the entries of the results[] elements the outer loop has been through
Processed == {<<b, e>> : b \in 1..(atNext - 1), e \in 1..MaxEntries} \cap
             {pos \in (1..Len(atDoc)) \X (1..MaxEntries) : pos[2] <= Len(atDoc[pos[1]])}
KeyAt(pos) == atDoc[pos[1]][pos[2]][1]
SizeAt(pos) == atDoc[pos[1]][pos[2]][2]
\* the processed entries that count for composition key k
CountedFor(k) == {pos \in Processed : ~skipped(KeyAt(pos), SizeAt(pos)) /\ pkgName(KeyAt(pos)) = k}

RECURSIVE SumSizes(_)
SumSizes(S) == IF S = {} THEN 0
               ELSE LET pos == CHOOSE x \in S : TRUE IN SizeAt(pos) + SumSizes(S \ {pos})

Totals(m) == [k \in MapKeys(m) |-> MapGet(m, k)]

RECURSIVE Reverse(_)
Reverse(s) == IF s = <<>> THEN <<>> ELSE Append(Reverse(Tail(s)), Head(s))

\* the processed part of the document with the elements and the entries of
\* each element in the opposite order
Reversed == Reverse([b \in 1..(atNext - 1) |-> Reverse(atDoc[b])])

\* C25: while and after exploreSourcemaps goes through a document, every key of
\* the composition Map has the sum of the sizes of all processed entries that
\* are not skipped and whose derived key it is, a key is present only when
\* there is such an entry, and processing the same elements and entries in the
\* opposite order gives the same totals.
C25_TotalsAreOrderFreeSums ==
    atPass = 1 =>
        /\ \A k \in MapKeys(compositionMap) \cup {pkgName(KeyAt(pos)) : pos \in Processed} :
              /\ MapHas(compositionMap, k) <=> CountedFor(k) # {}
              /\ MapValue(compositionMap, k) = SumSizes(CountedFor(k))
        /\ \A i, j \in 1..Len(compositionMap) :
              compositionMap[i][1] = compositionMap[j][1] => i = j
        /\ Totals(attributeBundles(<<>>, Reversed)) = Totals(compositionMap)

\* a document of two elements that credit one package from three entries, in
\* an order that differs between the elements
C25_Witness ==
    /\ atPc = "done"
    /\ atPass = 1
    /\ Len(atDoc) = 2
    /\ Cardinality(CountedFor("d")) = 3
    /\ MapValue(compositionMap, "d") = 2 + MaxSize
    /\ Reversed # atDoc

(***************************************************************************)
(* C26  attributing the same document twice                                *)
(***************************************************************************)
AttributedTwice == atPass = 2 /\ atPc = "done"

\* C26: attributing the same document a second time into the composition Map
\* leaves the per-package totals as they were after the first attribution.
C26_SecondAttributionChangesNothing ==
    AttributedTwice => Totals(compositionMap) = Totals(atFirst)

\* C26 (amended): attributing the same document a second time into the
\* composition Map keeps the keys and their order and adds every counted size
\* once more: each per-package total is twice its value after the first
\* attribution.
C26_SecondAttributionDoubles ==
    AttributedTwice =>
        /\ Len(compositionMap) = Len(atFirst)
        /\ \A i \in 1..Len(atFirst) :
              /\ compositionMap[i][1] = atFirst[i][1]
              /\ compositionMap[i][2] = 2 * atFirst[i][2]

\* a document with two packages has been attributed twice
C26_Witness ==
    /\ AttributedTwice
    /\ Len(atFirst) >= 2
    /\ MapValue(atFirst, "p") = MaxSize
    /\ MapValue(compositionMap, "p") = 2 * MaxSize

(***************************************************************************)
(* C27  the failure message of a fatal step                                *)
(***************************************************************************)
\* C27: once a fatal step has failed, in table mode and in JSON mode, the
\* message naming the step and carrying the error's text has been written to
\* standard error, from the moment of the failure on and so before the
\* partial results are rendered.
C27_FailureMessageEmitted ==
    failedStep # "none" => failText(failedStep) \in Range(stderr)

(***************************************************************************)
(* C28  the default-export probes run one after the other                  *)
(***************************************************************************)
ProbeCandidates == packageExports(prExports)

\* C28: getExportsData probes its candidates one at a time, in order and once
\* each: every probe build read the src/index.js written for its own
\* candidate, the file holds the current candidate's source while its build is
\* pending, and the loop returns with one entry per candidate.
C28_ProbesOneAtATime ==
    /\ \A i \in 1..Len(prBuilds) :
          /\ prBuilds[i].file = probeSource(prBuilds[i].import)
          /\ prBuilds[i].import = ProbeCandidates[prBuilds[i].candidate].import
    /\ Len(prData) <= Len(ProbeCandidates)
    /\ \A i \in 1..Len(prData) : prData[i].import = ProbeCandidates[i].import
    /\ Len(prOutcomes) = Len(prData)
    /\ Len(prBuilds) <= Len(prData)
    /\ \A i, j \in 1..Len(prBuilds) : i < j => prBuilds[i].candidate < prBuilds[j].candidate
    /\ prPc = "pkgbld" => prFile = probeSource(ProbeCandidates[Len(prData) + 1].import)
    /\ prPc \in {"return", "returned"} => Len(prData) = Len(ProbeCandidates)

\* two candidates, two probe builds, each on its own probe source
C28_Witness ==
    /\ prPc = "returned"
    /\ Len(prBuilds) = 2
    /\ prBuilds[1].file = probeSource("p")
    /\ prBuilds[2].file = probeSource("p/a")

(***************************************************************************)
(* C29  analysis, then pruning, then the measurement of dist               *)
(***************************************************************************)
Before(a, b) == \E j \in 1..Len(trace) : trace[j] = b /\ \E i \in 1..(j - 1) : trace[i] = a
AtMostOnce(e) == \A i \in 1..Len(trace) :
                    trace[i] = e => \A j \in 1..Len(trace) : trace[j] = e => i = j

\* C29: on every run prunePackage starts only after exploreSourcemaps has
\* completed successfully, and calculateDistSize starts only after
\* prunePackage has completed successfully: the analysis runs with the
\* sourcemaps present and at most once, and dist is measured only with the
\* sourcemaps removed.
C29_AnalysePruneMeasure ==
    /\ pc = "prunePackage" =>
          /\ Before("exploreSourcemaps", "prunePackage")
          /\ failedStep = "none"
          /\ sourcemaps = "present"
    /\ pc = "calculateDistSize" =>
          /\ Before("exploreSourcemaps", "prunePackage")
          /\ Before("prunePackage", "calculateDistSize")
          /\ failedStep = "none"
          /\ sourcemaps = "removed"
    /\ pc = "exploreSourcemaps" =>
          /\ sourcemaps = "present"
          /\ AtMostOnce("exploreSourcemaps")
    /\ sourcemaps = "removed" => pc \notin {"buildPackage", "exploreSourcemaps", "prunePackage"}
    /\ (\E i \in 1..Len(results) : results[i].id = "sizeMinified") => sourcemaps = "removed"

\* a run that attributed bytes, pruned and measured dist
C29_Witness ==
    /\ Happened("succeed")
    /\ compositionMap # <<>>
    /\ sourcemaps = "removed"
    /\ \E i \in 1..Len(results) : results[i].id = "sizeMinified"

(***************************************************************************)
(* C30  the manifest's data when `npm list` fails                          *)
(***************************************************************************)
\* C30: when the manifest was located and read and only the listing of the
\* dependency tree failed, resolvePackageJson still reports the version of
\* the manifest, not '<unknown>'.
C30_ManifestKeptWhenListingFails ==
    Happened("resolveFailed:npm list") =>
        /\ packageVersion \in ManifestVersions
        /\ packageVersion # unknownManifest.version

====
